---- MODULE Spec2Model ----
(***************************************************************************)
(* TourneyPro: fixture generation and bracket progression.                 *)
(*                                                                         *)
(* The persisted rows (Match, Registration, Tournament, Team counters) are *)
(* the state.  A pitch label is a sequence of one-character strings, so    *)
(* that the ORM lookups on it (startswith, icontains, iexact) are computed *)
(* on the text itself.  None is modelled by the value None (-1); scores    *)
(* and penalties that are stored are never negative.                       *)
(***************************************************************************)
EXTENDS Integers, Sequences, FiniteSets, TLC

VARIABLES
    format,            \* Tournament.format
    combination_type,  \* Tournament.structure['combination_type']
    tstatus,           \* Tournament.status
    registrations,     \* Registration rows, in creation order: [team, status]
    matches,           \* Match rows, in id order
    teamStats,         \* Team counters: wins, draws, losses, goals_for, goals_against
    last,              \* outcome of the last request that was served
    plan,              \* the result script of a scripted run ("" when unscripted)
    pc,                \* position of each concurrent request
    loc,               \* local variables of each concurrent request
    rr                 \* input and output of a direct call of a fixture function

vars == <<format, combination_type, tstatus, registrations, matches, teamStats,
          last, plan, pc, loc, rr>>

None == -1

----------------------------------------------------------------------------
(* Text of the pitch labels and the string operations of the ORM lookups.  *)

LowerMap ==
    ("A" :> "a") @@ ("B" :> "b") @@ ("C" :> "c") @@ ("D" :> "d") @@
    ("F" :> "f") @@ ("G" :> "g") @@ ("Q" :> "q") @@ ("R" :> "r") @@
    ("S" :> "s")

Lower(c) == IF c \in DOMAIN LowerMap THEN LowerMap[c] ELSE c

LowerStr(s) == [i \in 1..Len(s) |-> Lower(s[i])]

RECURSIVE LStrip(_)
LStrip(s) == IF s # <<>> /\ Head(s) = " " THEN LStrip(Tail(s)) ELSE s

RECURSIVE RStrip(_)
RStrip(s) ==
    IF s # <<>> /\ s[Len(s)] = " " THEN RStrip(SubSeq(s, 1, Len(s) - 1)) ELSE s

Strip(s) == RStrip(LStrip(s))

StartsWith(s, p) == Len(p) <= Len(s) /\ SubSeq(s, 1, Len(p)) = p

Contains(s, p) ==
    \E i \in 0..(Len(s) - Len(p)) : SubSeq(s, i + 1, i + Len(p)) = p


GROUP_WORD == <<"G", "r", "o", "u", "p">>
ROUND_WORD == <<"R", "o", "u", "n", "d", " ">>
ROUND_1 == <<"R", "o", "u", "n", "d", " ", "1">>
ROUND_OF_16 == <<"R", "o", "u", "n", "d", " ", "o", "f", " ", "1", "6">>
QUARTER_FINALS ==
    <<"Q", "u", "a", "r", "t", "e", "r", "-", "F", "i", "n", "a", "l", "s">>
SEMI_FINALS == <<"S", "e", "m", "i", "-", "F", "i", "n", "a", "l", "s">>
FINAL == <<"F", "i", "n", "a", "l">>
final_lower == <<"f", "i", "n", "a", "l">>

DigitChar == <<"1", "2", "3", "4", "5", "6", "7", "8", "9">>

RECURSIVE Decimal(_)
Decimal(n) ==
    IF n = 0 THEN <<"0">>
    ELSE IF n < 10 THEN <<DigitChar[n]>>
    ELSE Decimal(n \div 10) \o (IF n % 10 = 0 THEN <<"0">> ELSE <<DigitChar[n % 10]>>)

GroupLetter == <<"A", "B", "C", "D">>

\* f"Group {chr(65 + i)}", i counted from 1 here
GroupName(i) == GROUP_WORD \o <<" ", GroupLetter[i]>>

\* f"{group_name} - Round {round_number}"
GroupPitch(group_name, round_number) ==
    group_name \o <<" ", "-", " ">> \o ROUND_WORD \o Decimal(round_number)

\* the labels the generators write, and the words the lookups search for
Labels ==
    {ROUND_1, ROUND_OF_16, QUARTER_FINALS, SEMI_FINALS, FINAL}
        \cup {GroupPitch(GroupName(g), r) : g \in 1..4, r \in 1..9}
Words == {GROUP_WORD, ROUND_1, ROUND_OF_16, QUARTER_FINALS, SEMI_FINALS, FINAL}

\* pitch__icontains and pitch__iexact, tabulated once for the known labels
IContainsText(s, p) == Contains(LowerStr(s), LowerStr(p))
IContainsTable == [s \in Labels, p \in Words |-> IContainsText(s, p)]
IContains(s, p) ==
    IF s \in Labels /\ p \in Words THEN IContainsTable[s, p] ELSE IContainsText(s, p)

IExactText(s, p) == LowerStr(s) = LowerStr(p)
IExactTable == [s \in Labels, p \in Words |-> IExactText(s, p)]
IExact(s, p) ==
    IF s \in Labels /\ p \in Words THEN IExactTable[s, p] ELSE IExactText(s, p)

----------------------------------------------------------------------------
(* Rows and simple queries.                                                *)

MaxOf(S) ==
    IF S = {} THEN 0
    ELSE LET x == CHOOSE y \in S : \A z \in S : z <= y IN x

Range(s) == {s[i] : i \in 1..Len(s)}

NextId(ms) == MaxOf({ms[i].id : i \in 1..Len(ms)}) + 1

\* Match(tournament=..., home_team=..., away_team=..., kickoff_at=...,
\*       status='scheduled', pitch=...) with the model's defaults
NewMatch(id, home, away, kickoff, pitch) ==
    [id |-> id, home_team |-> home, away_team |-> away, pitch |-> pitch,
     kickoff_at |-> kickoff, status |-> "scheduled",
     home_score |-> 0, away_score |-> 0,
     home_penalties |-> None, away_penalties |-> None]

\* registrations.filter(status__in=['pending', 'paid']) -> [reg.team ...]
RegisteredTeams(regs) ==
    LET act == SelectSeq(regs, LAMBDA r : r.status \in {"pending", "paid"})
    IN  [i \in 1..Len(act) |-> act[i].team]

\* Team.objects.filter(registrations__tournament=t,
\*     registrations__status__in=['pending', 'paid']).distinct(): the rows of
\* the team table, in the order of their keys
TournamentTeams(regs) ==
    LET s == {regs[i].team : i \in {j \in 1..Len(regs) :
                                        regs[j].status \in {"pending", "paid"}}}
    IN  [i \in 1..Cardinality(s) |->
            CHOOSE t \in s : Cardinality({u \in s : u < t}) = i - 1]

\* Match.objects.filter(tournament=t).exclude(pitch__icontains='Group')
KnockoutMatches(ms) == SelectSeq(ms, LAMBDA m : ~IContains(m.pitch, GROUP_WORD))

\* Match.objects.filter(tournament=t, pitch__icontains='Group')
GroupMatches(ms) == SelectSeq(ms, LAMBDA m : IContains(m.pitch, GROUP_WORD))

Unfinished(ms) == SelectSeq(ms, LAMBDA m : m.status \in {"scheduled", "live"})

Finished_WithLive(ms) == SelectSeq(ms, LAMBDA m : m.status \in {"finished", "live"})

Finished(ms) == SelectSeq(ms, LAMBDA m : m.status = "finished")

----------------------------------------------------------------------------
(* Bracket progression: simulation_helpers.py                              *)

get_round_name(num_teams) ==
    IF num_teams >= 16 THEN ROUND_OF_16
    ELSE IF num_teams >= 8 THEN QUARTER_FINALS
    ELSE IF num_teams >= 4 THEN SEMI_FINALS
    ELSE FINAL

\* the matches of the completed round: exact label match if there is one,
\* a substring match otherwise; group matches are always left out
CompletedRoundMatches(ms, completed_round_name) ==
    LET normalized_round_name == Strip(completed_round_name)
        ko == KnockoutMatches(ms)
        matches_by_exact ==
            SelectSeq(ko, LAMBDA m : IExact(m.pitch, normalized_round_name))
        matches_by_contains ==
            SelectSeq(ko, LAMBDA m : IContains(m.pitch, normalized_round_name))
    IN  IF Len(matches_by_exact) > 0 THEN matches_by_exact ELSE matches_by_contains

\* a winner rule that sends the home team on from a level match without penalties
MatchWinner_LevelGoesHome(m) ==
    IF m.status = "finished" /\ m.home_score # None /\ m.away_score # None
    THEN IF m.away_score > m.home_score THEN <<m.away_team>>
         ELSE IF m.home_penalties # None /\ m.away_penalties # None
                 /\ m.away_penalties > m.home_penalties
              THEN <<m.away_team>>
              ELSE <<m.home_team>>
    ELSE <<>>

\* the winner of one match of the round, as a list of zero or one team
MatchWinner(m) ==
    IF m.status = "finished" /\ m.home_score # None /\ m.away_score # None
    THEN IF m.home_score > m.away_score THEN <<m.home_team>>
         ELSE IF m.away_score > m.home_score THEN <<m.away_team>>
         ELSE IF m.home_penalties # None /\ m.away_penalties # None
              THEN IF m.home_penalties > m.away_penalties THEN <<m.home_team>>
                   ELSE IF m.away_penalties > m.home_penalties THEN <<m.away_team>>
                   ELSE <<>>
              ELSE <<>>
    ELSE <<>>

RECURSIVE Winners(_)
Winners(round_matches) ==
    IF round_matches = <<>> THEN <<>>
    ELSE MatchWinner(Head(round_matches)) \o Winners(Tail(round_matches))

\* an existence check that accepts every label containing the name
NextRoundExists_AnyContains(ms, next_round_name) ==
    \E i \in 1..Len(KnockoutMatches(ms)) :
       IContains(KnockoutMatches(ms)[i].pitch, next_round_name)

\* "Check if next round already exists"
NextRoundExists(ms, next_round_name) ==
    LET ko == KnockoutMatches(ms)
        existing_exact == SelectSeq(ko, LAMBDA m : IExact(m.pitch, next_round_name))
        existing_contains ==
            SelectSeq(ko, LAMBDA m : IContains(m.pitch, next_round_name))
    IN  IF Len(existing_exact) > 0 THEN TRUE
        ELSE IF Len(existing_contains) > 0
             THEN IF LowerStr(next_round_name) = final_lower
                  THEN \E i \in 1..Len(existing_contains) :
                          Strip(LowerStr(existing_contains[i].pitch)) = final_lower
                  ELSE TRUE
             ELSE FALSE

\* the next round is dated on the day of the completed round's last match
NextRoundDate_SameDay(round_matches) ==
    MaxOf({round_matches[i].kickoff_at : i \in 1..Len(round_matches)})

\* completed_round_matches.order_by('-kickoff_at').first().kickoff_at + 1 day
NextRoundDate(round_matches) ==
    MaxOf({round_matches[i].kickoff_at : i \in 1..Len(round_matches)}) + 1

\* the creation loop: winners[2i] v winners[2i+1]
NextRoundRows(ms, winners, next_round_name, next_round_date) ==
    LET num_matches == Len(winners) \div 2
        first == NextId(ms)
    IN  [i \in 1..num_matches |->
            NewMatch(first + i - 1, winners[2 * i - 1], winners[2 * i],
                     next_round_date, next_round_name)]

\* the refusal: nothing is created and False is returned
NoRound(ms) == [ok |-> FALSE, matches |-> ms]

\* from "Determine next round name" to the end, with the winners in hand
CreateNextRound(ms, round_matches, winners) ==
    IF Len(winners) < 2 THEN NoRound(ms)
    ELSE IF NextRoundExists(ms, get_round_name(Len(winners))) THEN NoRound(ms)
    ELSE [ok |-> Len(winners) \div 2 > 0,
          matches |-> ms \o NextRoundRows(ms, winners, get_round_name(Len(winners)),
                                          NextRoundDate(round_matches))]

\* from "Check if all matches in this round are finished" on, with the
\* completed round's matches in hand
\* the advancement without the check for matches that are still to be played
AdvanceFrom_IgnoreUnfinished(ms, round_matches) ==
    IF Len(round_matches) = 0 THEN NoRound(ms)
    ELSE CreateNextRound(ms, round_matches, Winners(round_matches))

AdvanceFrom(ms, round_matches) ==
    IF Len(round_matches) = 0 THEN NoRound(ms)
    ELSE IF Len(Unfinished(round_matches)) > 0 THEN NoRound(ms)
    ELSE CreateNextRound(ms, round_matches, Winners(round_matches))

generate_next_knockout_round(ms, completed_round_name) ==
    IF Strip(completed_round_name) = <<>> THEN NoRound(ms)
    ELSE AdvanceFrom(ms, CompletedRoundMatches(ms, completed_round_name))

----------------------------------------------------------------------------
(* First knockout round: tournament_formats.py                             *)

is_power_of_2_Positive(n) == n > 0

RECURSIVE is_power_of_2(_)
is_power_of_2(n) ==
    IF n <= 0 THEN FALSE
    ELSE IF n = 1 THEN TRUE
    ELSE IF n % 2 = 1 THEN FALSE
    ELSE is_power_of_2(n \div 2)

generate_knockout_fixtures_Folded(teams, start_date) ==
    LET num_teams == Len(teams)
        num_matches_round1 == num_teams \div 2
    IN  IF num_teams < 2 THEN [error |-> FALSE, rows |-> <<>>]
        ELSE IF ~is_power_of_2(num_teams) THEN [error |-> TRUE, rows |-> <<>>]
        ELSE [error |-> FALSE,
              rows |-> [i \in 1..num_matches_round1 |->
                          NewMatch(0, teams[i], teams[num_matches_round1 + i],
                                   start_date, ROUND_1)]]

\* returns unsaved rows (id 0), or an error
generate_knockout_fixtures(teams, start_date) ==
    LET num_teams == Len(teams)
        num_matches_round1 == num_teams \div 2
    IN  IF num_teams < 2 THEN [error |-> FALSE, rows |-> <<>>]
        ELSE IF ~is_power_of_2(num_teams) THEN [error |-> TRUE, rows |-> <<>>]
        ELSE [error |-> FALSE,
              rows |-> [i \in 1..num_matches_round1 |->
                          NewMatch(0, teams[2 * i - 1], teams[2 * i],
                                   start_date, ROUND_1)]]

\* match.save() for each returned row, in order
SaveAll(ms, rows) ==
    LET first == NextId(ms)
    IN  ms \o [i \in 1..Len(rows) |-> [rows[i] EXCEPT !.id = first + i - 1]]

----------------------------------------------------------------------------
(* Grouping and round-robin generation: tournament_formats.py              *)

RECURSIVE SumSeq(_)
SumSeq(s) == IF s = <<>> THEN 0 ELSE Head(s) + SumSeq(Tail(s))

RECURSIVE Concat(_)
Concat(ss) == IF ss = <<>> THEN <<>> ELSE Head(ss) \o Concat(Tail(ss))

MinOf(S) == CHOOSE y \in S : \A z \in S : y <= z

\* a grouping that gives the extra teams to the last groups
generate_groups_ExtraToLast(teams) ==
    LET num_teams == Len(teams)
        groups_count == IF num_teams < 16 THEN 2 ELSE 4
        per_group == num_teams \div groups_count
        remainder == num_teams % groups_count
        size(i) == per_group + (IF i > groups_count - remainder THEN 1 ELSE 0)
        start(i) == SumSeq([j \in 1..(i - 1) |-> size(j)])
    IN  IF num_teams = 0 THEN <<>>
        ELSE [i \in 1..groups_count |->
                [name |-> GroupName(i),
                 teams |-> SubSeq(teams, start(i) + 1, start(i) + size(i))]]

generate_groups(teams) ==
    LET num_teams == Len(teams)
        groups_count == IF num_teams < 16 THEN 2 ELSE 4
        per_group == num_teams \div groups_count
        remainder == num_teams % groups_count
        size(i) == per_group + (IF i <= remainder THEN 1 ELSE 0)
        start(i) == SumSeq([j \in 1..(i - 1) |-> size(j)])
    IN  IF num_teams = 0 THEN <<>>
        ELSE [i \in 1..groups_count |->
                [name |-> GroupName(i),
                 teams |-> SubSeq(teams, start(i) + 1, start(i) + size(i))]]

\* tuple(sorted([a, b]))
SortedPair_AsGiven(a, b) == <<a, b>>

SortedPair(a, b) == IF a <= b THEN <<a, b>> ELSE <<b, a>>

\* itertools.combinations(range(n), 2), positions counted from 1
Combinations2(n) ==
    Concat([i \in 1..n |-> [k \in 1..(n - i) |-> <<i, i + k>>]])

DigitVal(c) ==
    CASE c = "0" -> 0 [] c = "1" -> 1 [] c = "2" -> 2 [] c = "3" -> 3
      [] c = "4" -> 4 [] c = "5" -> 5 [] c = "6" -> 6 [] c = "7" -> 7
      [] c = "8" -> 8 [] c = "9" -> 9 [] OTHER -> None

\* int(text), None for a ValueError
RECURSIVE ParseInt(_)
ParseInt(s) ==
    IF s = <<>> THEN None
    ELSE IF DigitVal(s[Len(s)]) = None THEN None
    ELSE IF Len(s) = 1 THEN DigitVal(s[1])
    ELSE LET front == ParseInt(SubSeq(s, 1, Len(s) - 1))
         IN  IF front = None THEN None ELSE 10 * front + DigitVal(s[Len(s)])

\* pitch.split('Round ')[-1]
AfterLastRound(pitch) ==
    LET at == {i \in 0..(Len(pitch) - Len(ROUND_WORD)) :
                  SubSeq(pitch, i + 1, i + Len(ROUND_WORD)) = ROUND_WORD}
    IN  IF at = {} THEN pitch
        ELSE SubSeq(pitch, MaxOf(at) + Len(ROUND_WORD) + 1, Len(pitch))

\* the round an existing match is filed under
ExistingRound(m, start_round) ==
    IF m.pitch = <<>> THEN start_round
    ELSE LET n == ParseInt(AfterLastRound(m.pitch))
         IN  IF n = None THEN start_round ELSE n

\* a listing of the existing matches that stops after their first round
ByRound_FirstRoundOnly(existing, rounds, start_round) ==
    LET r == MinOf(rounds)
        here == SelectSeq(existing, LAMBDA m : ExistingRound(m, start_round) = r)
    IN  [i \in 1..Len(here) |-> [round |-> r, match |-> here[i]]]

RECURSIVE ByRound(_, _, _)
ByRound(existing, rounds, start_round) ==
    IF rounds = {} THEN <<>>
    ELSE LET r == MinOf(rounds)
             here == SelectSeq(existing, LAMBDA m : ExistingRound(m, start_round) = r)
         IN  [i \in 1..Len(here) |-> [round |-> r, match |-> here[i]]]
                 \o ByRound(existing, rounds \ {r}, start_round)

\* a greedy assignment that drops a pair when every round holds one of its teams
RECURSIVE GreedyRounds_DropUnassigned(_, _)
GreedyRounds_DropUnassigned(pairs, acc) ==
    IF pairs = <<>> THEN acc.rounds
    ELSE LET p == Head(pairs)
             free == {r \in 1..Len(acc.rounds) :
                         p[1] \notin acc.round_teams[r] /\ p[2] \notin acc.round_teams[r]}
         IN  IF free # {}
             THEN LET r == MinOf(free)
                  IN  GreedyRounds_DropUnassigned(Tail(pairs),
                        [rounds |-> [acc.rounds EXCEPT ![r] = Append(@, p)],
                         round_teams |-> [acc.round_teams EXCEPT ![r] = @ \cup {p[1], p[2]}]])
             ELSE GreedyRounds_DropUnassigned(Tail(pairs), acc)

\* "Simple greedy assignment": acc = [rounds, round_teams]
RECURSIVE GreedyRounds(_, _)
GreedyRounds(pairs, acc) ==
    IF pairs = <<>> THEN acc.rounds
    ELSE LET p == Head(pairs)
             num_rounds == Len(acc.rounds)
             free == {r \in 1..num_rounds :
                         p[1] \notin acc.round_teams[r] /\ p[2] \notin acc.round_teams[r]}
             fewest == MinOf({Len(acc.rounds[r]) : r \in 1..num_rounds})
             fallback == MinOf({r \in 1..num_rounds : Len(acc.rounds[r]) = fewest})
         IN  IF free # {}
             THEN LET r == MinOf(free)
                  IN  GreedyRounds(Tail(pairs),
                        [rounds |-> [acc.rounds EXCEPT ![r] = Append(@, p)],
                         round_teams |-> [acc.round_teams EXCEPT ![r] = @ \cup {p[1], p[2]}]])
             ELSE GreedyRounds(Tail(pairs),
                        [rounds |-> [acc.rounds EXCEPT ![fallback] = Append(@, p)],
                         round_teams |-> acc.round_teams])

\* returns (round_number, match) tuples; new matches are unsaved (id 0)
generate_round_robin_for_group(group_teams, ms, group_name, start_date, start_round) ==
    LET num_teams == Len(group_teams)
        existing_matches == SelectSeq(ms, LAMBDA m : StartsWith(m.pitch, group_name))
        existing_pairs == {SortedPair(existing_matches[i].home_team,
                                      existing_matches[i].away_team) :
                              i \in 1..Len(existing_matches)}
        combos == Combinations2(num_teams)
        candidates == [i \in 1..Len(combos) |->
                          <<group_teams[combos[i][1]], group_teams[combos[i][2]]>>]
        all_pairs == SelectSeq(candidates,
                               LAMBDA p : SortedPair(p[1], p[2]) \notin existing_pairs)
        expected_matches == (num_teams * (num_teams - 1)) \div 2
        num_rounds == IF num_teams - 1 > 1 THEN num_teams - 1 ELSE 1
        rounds == GreedyRounds(all_pairs,
                      [rounds |-> [r \in 1..num_rounds |-> <<>>],
                       round_teams |-> [r \in 1..num_rounds |-> {}]])
        created == Concat([r \in 1..num_rounds |->
                      [k \in 1..Len(rounds[r]) |->
                          [round |-> start_round + r - 1,
                           match |-> NewMatch(0, rounds[r][k][1], rounds[r][k][2],
                                              start_date + r - 1,
                                              GroupPitch(group_name, start_round + r - 1))]]])
    IN  IF num_teams < 2 THEN <<>>
        ELSE IF Cardinality(existing_pairs) = expected_matches
        THEN ByRound(existing_matches,
                     {ExistingRound(existing_matches[i], start_round) :
                         i \in 1..Len(existing_matches)},
                     start_round)
        ELSE created

----------------------------------------------------------------------------
(* Standings: tournament_formats.py                                        *)

KeyGreaterEq_Strict(a, b) ==
    \/ a.points > b.points
    \/ a.points = b.points /\ a.goal_difference > b.goal_difference
    \/ a.points = b.points /\ a.goal_difference = b.goal_difference
         /\ a.goals_for > b.goals_for

\* key=lambda x: (x['points'], x['goal_difference'], x['goals_for'])
KeyGreaterEq(a, b) ==
    \/ a.points > b.points
    \/ a.points = b.points /\ a.goal_difference > b.goal_difference
    \/ a.points = b.points /\ a.goal_difference = b.goal_difference
         /\ a.goals_for >= b.goals_for

\* sorted(..., reverse=True): descending and stable
RECURSIVE SortStandings(_)
SortStandings(rows) ==
    IF rows = <<>> THEN <<>>
    ELSE LET front == SortStandings(SubSeq(rows, 1, Len(rows) - 1))
             x == rows[Len(rows)]
             k == Cardinality({i \in 1..Len(front) : KeyGreaterEq(front[i], x)})
         IN  SubSeq(front, 1, k) \o <<x>> \o SubSeq(front, k + 1, Len(front))

calculate_group_standings(teams, ms, group_name) ==
    LET all_group_matches ==
            SelectSeq(ms, LAMBDA m : m.pitch # <<>> /\ StartsWith(m.pitch, group_name))
        fin == Finished(all_group_matches)
        count(s, P(_)) == Len(SelectSeq(s, P))
        total(s, f(_)) == SumSeq([i \in 1..Len(s) |-> f(s[i])])
        row(t) ==
            LET played == count(all_group_matches, LAMBDA m : m.home_team = t)
                            + count(all_group_matches, LAMBDA m : m.away_team = t)
                wins == count(fin, LAMBDA m :
                            \/ m.home_team = t /\ m.home_score > m.away_score
                            \/ m.away_team = t /\ m.away_score > m.home_score)
                losses == count(fin, LAMBDA m :
                            \/ m.home_team = t /\ m.away_score > m.home_score
                            \/ m.away_team = t /\ m.home_score > m.away_score)
                draws == count(fin, LAMBDA m :
                            /\ m.home_team = t \/ m.away_team = t
                            /\ m.home_score = m.away_score)
                gf == total(fin, LAMBDA m :
                            (IF m.home_team = t THEN m.home_score ELSE 0)
                          + (IF m.away_team = t THEN m.away_score ELSE 0))
                ga == total(fin, LAMBDA m :
                            (IF m.home_team = t THEN m.away_score ELSE 0)
                          + (IF m.away_team = t THEN m.home_score ELSE 0))
            IN  [team |-> t, played |-> played, wins |-> wins, draws |-> draws,
                 losses |-> losses, goals_for |-> gf, goals_against |-> ga,
                 goal_difference |-> gf - ga, points |-> 3 * wins + draws]
    IN  SortStandings([i \in 1..Len(teams) |-> row(teams[i])])

\* the report's 'valid' flag and pair lists
validate_round_robin_completeness(group_teams, ms, group_name) ==
    LET num_teams == Len(group_teams)
        team_ids == Range(group_teams)
        expected_matches == (num_teams * (num_teams - 1)) \div 2
        group_matches == SelectSeq(ms, LAMBDA m :
                            /\ m.pitch # <<>> /\ StartsWith(m.pitch, group_name)
                            /\ m.home_team \in team_ids /\ m.away_team \in team_ids)
        pair(i) == SortedPair(group_matches[i].home_team, group_matches[i].away_team)
        pairs_seen == {pair(i) : i \in 1..Len(group_matches)}
        dup_at == SelectSeq([i \in 1..Len(group_matches) |-> i],
                            LAMBDA i : \E j \in 1..(i - 1) : pair(j) = pair(i))
        duplicate_pairs == [k \in 1..Len(dup_at) |-> pair(dup_at[k])]
        combos == Combinations2(num_teams)
        missing_pairs ==
            SelectSeq([i \in 1..Len(combos) |->
                          <<group_teams[combos[i][1]], group_teams[combos[i][2]]>>],
                      LAMBDA p : SortedPair(p[1], p[2]) \notin pairs_seen)
        per_team(t) == Len(SelectSeq(group_matches, LAMBDA m : m.home_team = t))
                         + Len(SelectSeq(group_matches, LAMBDA m : m.away_team = t))
        errors == \/ Len(group_matches) # expected_matches
                  \/ missing_pairs # <<>>
                  \/ duplicate_pairs # <<>>
                  \/ \E t \in team_ids : per_team(t) # num_teams - 1
    IN  [valid |-> ~errors, expected_matches |-> expected_matches,
         actual_matches |-> Len(group_matches),
         missing_pairs |-> missing_pairs, duplicate_pairs |-> duplicate_pairs]

----------------------------------------------------------------------------
(* Fixture generation entry points                                         *)

\* combinationB branch: group matches only, ordered by round, then by group
generate_combination_fixtures(teams, ms, start_date) ==
    LET groups == generate_groups(teams)
        rounds_needed(g) ==
            IF Len(g.teams) % 2 = 0 THEN Len(g.teams) - 1 ELSE Len(g.teams)
        max_rounds == MaxOf({rounds_needed(groups[i]) : i \in 1..Len(groups)})
        all_group_matches ==
            [i \in 1..Len(groups) |->
                generate_round_robin_for_group(groups[i].teams, ms, groups[i].name,
                                               start_date, 1)]
        in_round(i, round_num) ==
            LET sel == SelectSeq(all_group_matches[i], LAMBDA rm : rm.round = round_num)
            IN  [k \in 1..Len(sel) |->
                    [sel[k].match EXCEPT !.kickoff_at = start_date + round_num - 1]]
    IN  Concat([round_num \in 1..max_rounds |->
                  Concat([i \in 1..Len(groups) |-> in_round(i, round_num)])])

LeagueRound_FromHead(fixed, rotating, even) ==
    LET L == Len(rotating)
        idx == SelectSeq([i \in 1..(L \div 2) |-> i], LAMBDA i : even \/ i < L - i)
    IN  <<<<fixed, rotating[1]>>>>
          \o [k \in 1..Len(idx) |-> <<rotating[idx[k]], rotating[L - idx[k] + 1]>>]

\* one round of the circle: the fixed team against the head of the rotating
\* list, then the rotating teams paired from both ends
LeagueRound(fixed, rotating, even) ==
    LET L == Len(rotating)
        idx == SelectSeq([i \in 1..(L \div 2) |-> i], LAMBDA i : even \/ i < L - i)
    IN  <<<<fixed, rotating[1]>>>>
          \o [k \in 1..Len(idx) |-> <<rotating[idx[k] + 1], rotating[L - idx[k] + 1]>>]

\* the rounds of the schedule, the rotating list turned after each round
RECURSIVE LeagueRounds(_, _, _, _)
LeagueRounds(fixed, rotating, even, left) ==
    IF left = 0 THEN <<>>
    ELSE <<LeagueRound(fixed, rotating, even)>>
           \o LeagueRounds(fixed,
                  IF even
                  THEN <<rotating[1], rotating[Len(rotating)]>>
                         \o SubSeq(rotating, 2, Len(rotating) - 1)
                  ELSE Tail(rotating) \o <<rotating[1]>>,
                  even, left - 1)

\* returns unsaved rows (id 0) with a blank pitch, a day per round
generate_league_fixtures(teams, start_date) ==
    LET num_teams == Len(teams)
        rounds == LeagueRounds(teams[1], Tail(teams), num_teams % 2 = 0, num_teams - 1)
    IN  IF num_teams < 2 THEN <<>>
        ELSE Concat([r \in 1..Len(rounds) |->
                        [k \in 1..Len(rounds[r]) |->
                            NewMatch(0, rounds[r][k][1], rounds[r][k][2],
                                     start_date + r - 1, <<>>)]])

\* league, knockout and combinationB tournaments; the rows are unsaved
generate_fixtures_for_tournament(fmt, ctype, regs, ms) ==
    LET teams == RegisteredTeams(regs)
        num_teams == Len(teams)
        start_date == 0
        ko == generate_knockout_fixtures(teams, start_date)
        league == generate_league_fixtures(teams, start_date)
        expected_first_round ==
            IF num_teams % 2 = 0 THEN num_teams \div 2 ELSE (num_teams - 1) \div 2
    IN  IF num_teams < 2 THEN [error |-> FALSE, rows |-> <<>>]
        ELSE IF fmt = "league"
        THEN IF Len(league) # (num_teams * (num_teams - 1)) \div 2
             THEN [error |-> TRUE, rows |-> <<>>]
             ELSE [error |-> FALSE, rows |-> league]
        ELSE IF fmt = "knockout"
        THEN IF ko.error \/ Len(ko.rows) # expected_first_round
             THEN [error |-> TRUE, rows |-> <<>>]
             ELSE ko
        ELSE [error |-> FALSE,
              rows |-> generate_combination_fixtures(teams, ms, start_date)]

\* a repair pass that regenerates an invalid group beside its old matches
RECURSIVE RepairGroups_NoDelete(_, _, _)
RepairGroups_NoDelete(ms, groups, now) ==
    IF groups = <<>> THEN ms
    ELSE LET g == Head(groups)
             report == validate_round_robin_completeness(g.teams, ms, g.name)
             regenerated == generate_round_robin_for_group(g.teams, ms, g.name, now, 1)
             fresh == SelectSeq(regenerated, LAMBDA e : e.match.id = 0)
             rows == [i \in 1..Len(fresh) |-> fresh[i].match]
         IN  IF report.valid THEN RepairGroups_NoDelete(ms, Tail(groups), now)
             ELSE RepairGroups_NoDelete(SaveAll(ms, rows), Tail(groups), now)

\* the validate-and-repair pass of the generate-fixtures view, group by group
RECURSIVE RepairGroups(_, _, _)
RepairGroups(ms, groups, now) ==
    IF groups = <<>> THEN ms
    ELSE LET g == Head(groups)
             report == validate_round_robin_completeness(g.teams, ms, g.name)
             kept == SelectSeq(ms, LAMBDA m : ~StartsWith(m.pitch, g.name))
             regenerated == generate_round_robin_for_group(g.teams, kept, g.name, now, 1)
             rows == [i \in 1..Len(regenerated) |-> regenerated[i].match]
         IN  IF report.valid THEN RepairGroups(ms, Tail(groups), now)
             ELSE RepairGroups(SaveAll(kept, rows), Tail(groups), now)

\* TournamentViewSet.generate_fixtures: the match rows after the request
generate_fixtures(fmt, ctype, regs, ms, now) ==
    LET gen == generate_fixtures_for_tournament(fmt, ctype, regs, ms)
        saved == SaveAll(ms, gen.rows)
    IN  IF Len(ms) > 0 THEN [status |-> 400, matches |-> ms]
        ELSE IF gen.error THEN [status |-> 500, matches |-> ms]
        ELSE IF fmt = "combination" /\ ctype = "combinationB"
        THEN [status |-> 200,
              matches |-> RepairGroups(saved, generate_groups(TournamentTeams(regs)), now)]
        ELSE [status |-> 200, matches |-> saved]

\* TournamentViewSet.fix_fixtures: the match rows after the request
fix_fixtures(fmt, ctype, regs, ms, now) ==
    IF fmt # "combination" \/ ctype # "combinationB" THEN [status |-> 400, matches |-> ms]
    ELSE IF Len(TournamentTeams(regs)) < 2 THEN [status |-> 400, matches |-> ms]
    ELSE [status |-> 200,
          matches |-> RepairGroups(ms, generate_groups(TournamentTeams(regs)), now)]

\* TournamentViewSet.clear_fixtures: every match of the tournament is deleted
clear_fixtures(ms) == [status |-> 200, matches |-> <<>>]

\* [mutant] a reset that sets every match back and deletes none
reset_matches_KeepKnockout(fmt, ms, ts) ==
    [status |-> 200,
     matches |-> [i \in 1..Len(ms) |->
                    [ms[i] EXCEPT
                        !.home_score = 0, !.away_score = 0,
                        !.home_penalties = None, !.away_penalties = None,
                        !.status = "scheduled"]],
     tstatus |-> IF ts = "completed" THEN "open" ELSE ts]

\* TournamentViewSet.reset_matches: knockout matches are deleted, the others
\* are set back to scheduled at 0-0, and a completed tournament is reopened
reset_matches(fmt, ms, ts) ==
    LET is_knockout(m) ==
            \/ fmt = "knockout"
            \/ fmt = "combination" /\ m.pitch # <<>> /\ ~Contains(m.pitch, GROUP_WORD)
        group_matches == SelectSeq(ms, LAMBDA m : ~is_knockout(m))
    IN  [status |-> 200,
         matches |-> [i \in 1..Len(group_matches) |->
                        [group_matches[i] EXCEPT
                            !.home_score = 0, !.away_score = 0,
                            !.home_penalties = None, !.away_penalties = None,
                            !.status = "scheduled"]],
         tstatus |-> IF ts = "completed" THEN "open" ELSE ts]

\* Team.objects.filter(id__in=team_ids).update(wins=0, ...) for the teams of
\* the pending and paid registrations
ResetStats(regs, stats) ==
    [t \in DOMAIN stats |->
        IF t \in Range(RegisteredTeams(regs)) THEN
            [wins |-> 0, draws |-> 0, losses |-> 0, goals_for |-> 0, goals_against |-> 0]
        ELSE stats[t]]

\* TournamentViewSet.remove_last_team: the latest pending or paid registration
\* is deleted
remove_last_team(regs) ==
    LET act == {i \in 1..Len(regs) : regs[i].status \in {"pending", "paid"}}
        last_registration == CHOOSE i \in act : \A j \in act : j <= i
    IN  IF act = {} THEN [status |-> 400, registrations |-> regs]
        ELSE [status |-> 200,
              registrations |-> SubSeq(regs, 1, last_registration - 1)
                                  \o SubSeq(regs, last_registration + 1, Len(regs))]

\* Team.objects.filter(registrations__tournament=tournament).distinct(): the
\* teams of all the registrations, whatever their status, in team order
AllRegisteredTeams(regs) ==
    LET s == {regs[i].team : i \in 1..Len(regs)}
    IN  [i \in 1..Cardinality(s) |->
            CHOOSE t \in s : Cardinality({u \in s : u < t}) = i - 1]

\* the rounds r, r+1, .. of the circle: arr[i] v arr[n-1-i], a pair with the
\* bye left out, then "rotate preserving first element"
RECURSIVE CircleRounds(_, _, _)
CircleRounds(arr, r, rounds) ==
    LET n == Len(arr)
        half == n \div 2
        pairs == SelectSeq([i \in 1..half |->
                               [home |-> arr[i], away |-> arr[n + 1 - i],
                                hours |-> r * 2 + i - 1]],
                           LAMBDA q : q.home # None /\ q.away # None)
    IN  IF r >= rounds THEN <<>>
        ELSE pairs \o CircleRounds(<<arr[1], arr[n]>> \o SubSeq(arr, 2, n - 1),
                                   r + 1, rounds)

\* models.generate_round_robin_fixtures: the rows it creates, kickoff in days
generate_round_robin_fixtures(regs) ==
    LET teams == AllRegisteredTeams(regs)
        arr == IF Len(teams) % 2 = 1 THEN Append(teams, None) ELSE teams
        pairs == CircleRounds(arr, 0, Len(arr) - 1)
    IN  IF Len(teams) < 2 THEN <<>>
        ELSE [k \in 1..Len(pairs) |->
                 NewMatch(0, pairs[k].home, pairs[k].away, pairs[k].hours \div 24, <<>>)]

\* the post_save receiver maybe_generate_fixtures, after a registration was created
maybe_generate_fixtures(regs, ms, capacity) ==
    IF Len(RegisteredTeams(regs)) >= capacity /\ ms = <<>>
    THEN SaveAll(ms, generate_round_robin_fixtures(regs))
    ELSE ms

----------------------------------------------------------------------------
(* Group stage to knockout stage: simulation_helpers.py                    *)

can_determine_group_qualifiers(fmt, ctype, regs, ms) ==
    LET all_group_matches == GroupMatches(ms)
    IN  /\ fmt = "combination"
        /\ ctype = "combinationB"
        /\ Len(KnockoutMatches(ms)) = 0
        /\ Len(RegisteredTeams(regs)) >= 4
        /\ Len(Finished(all_group_matches)) = Len(all_group_matches)
        /\ Len(all_group_matches) > 0

\* group_qualifiers: first and second of the standings of every group that
\* has at least two teams, in the order of sorted(group_qualifiers.keys())
GroupQualifiers(groups, all_matches) ==
    LET standings ==
            [i \in 1..Len(groups) |->
                calculate_group_standings(groups[i].teams,
                    SelectSeq(all_matches, LAMBDA m :
                        m.pitch # <<>> /\ StartsWith(m.pitch, groups[i].name)),
                    groups[i].name)]
        qualified == SelectSeq([i \in 1..Len(groups) |-> i],
                               LAMBDA i : Len(standings[i]) >= 2)
    IN  [k \in 1..Len(qualified) |->
            [first |-> standings[qualified[k]][1].team,
             second |-> standings[qualified[k]][2].team]]

\* a pairing of the two group winners and of the two runners-up of each pair
CrossoverRows_SameRank(group_qualifiers, knockout_start_date, round_name, first) ==
    Concat([k \in 1..(Len(group_qualifiers) \div 2) |->
              <<NewMatch(first + 2 * k - 2, group_qualifiers[2 * k - 1].first,
                         group_qualifiers[2 * k].first, knockout_start_date,
                         round_name),
                NewMatch(first + 2 * k - 1, group_qualifiers[2 * k].second,
                         group_qualifiers[2 * k - 1].second, knockout_start_date,
                         round_name)>>])

\* for i in range(0, len(group_names) - 1, 2): two matches per pair of groups
CrossoverRows(group_qualifiers, knockout_start_date, round_name, first) ==
    Concat([k \in 1..(Len(group_qualifiers) \div 2) |->
              <<NewMatch(first + 2 * k - 2, group_qualifiers[2 * k - 1].first,
                         group_qualifiers[2 * k].second, knockout_start_date,
                         round_name),
                NewMatch(first + 2 * k - 1, group_qualifiers[2 * k].first,
                         group_qualifiers[2 * k - 1].second, knockout_start_date,
                         round_name)>>])

\* the stage generation without the check for an existing knockout stage
KnockoutStage_NoExistenceCheck(ms, teams, group_qualifiers, gm) ==
    IF Len(teams) < 4 THEN NoRound(ms)
    ELSE IF Len(group_qualifiers) < 2 THEN NoRound(ms)
    ELSE IF Len(gm) = 0 THEN NoRound(ms)
    ELSE [ok |-> Len(group_qualifiers) \div 2 > 0,
          matches |-> ms \o CrossoverRows(group_qualifiers,
                            MaxOf({gm[i].kickoff_at : i \in 1..Len(gm)}) + 1,
                            get_round_name(Len(group_qualifiers) * 2),
                            NextId(ms))]

\* the checks and the creation, with teams, qualifiers and group matches in hand
KnockoutStage(ms, teams, group_qualifiers, gm) ==
    IF Len(KnockoutMatches(ms)) > 0 THEN NoRound(ms)
    ELSE IF Len(teams) < 4 THEN NoRound(ms)
    ELSE IF Len(group_qualifiers) < 2 THEN NoRound(ms)
    ELSE IF Len(gm) = 0 THEN NoRound(ms)
    ELSE [ok |-> Len(group_qualifiers) \div 2 > 0,
          matches |-> ms \o CrossoverRows(group_qualifiers,
                            MaxOf({gm[i].kickoff_at : i \in 1..Len(gm)}) + 1,
                            get_round_name(Len(group_qualifiers) * 2),
                            NextId(ms))]

generate_knockout_stage_from_groups(regs, ms) ==
    KnockoutStage(ms, RegisteredTeams(regs),
                  GroupQualifiers(generate_groups(RegisteredTeams(regs)), Finished(ms)),
                  GroupMatches(ms))

\* the response of generate-knockouts once the stage generation has returned
KnockoutsReply(r) ==
    [status |-> IF r.ok THEN 200 ELSE 400, matches |-> r.matches,
     generated |-> r.ok]

\* TournamentViewSet.generate_knockouts: the manual generate-knockouts action
generate_knockouts(fmt, ctype, regs, ms) ==
    IF fmt # "combination" THEN [status |-> 400, matches |-> ms, generated |-> FALSE]
    ELSE IF ctype # "combinationB"
    THEN [status |-> 400, matches |-> ms, generated |-> FALSE]
    ELSE IF Len(KnockoutMatches(ms)) > 0
    THEN [status |-> 200, matches |-> ms, generated |-> FALSE]
    ELSE KnockoutsReply(generate_knockout_stage_from_groups(regs, ms))

----------------------------------------------------------------------------
(* Score entry: MatchViewSet.set_score, views.py                           *)

\* 'Group' not in match.pitch decides the stage of a combination match
is_knockout(fmt, m) ==
    \/ fmt = "knockout"
    \/ fmt = "combination" /\ m.pitch # <<>> /\ ~Contains(m.pitch, GROUP_WORD)

\* [mutant] only the missing penalties are answered with 400
ScoreRejected_MissingOnly(fmt, m, inp) ==
    /\ is_knockout(fmt, m)
    /\ inp.hs = inp.as
    /\ inp.hp = None \/ inp.ap = None

\* the two 400 responses for a knockout draw
ScoreRejected(fmt, m, inp) ==
    /\ is_knockout(fmt, m)
    /\ inp.hs = inp.as
    /\ inp.hp = None \/ inp.ap = None \/ inp.hp = inp.ap

NonNegative(x) == IF x > 0 THEN x ELSE 0

\* the row written inside transaction.atomic()
ScoredMatch(fmt, m, inp) ==
    LET keep == is_knockout(fmt, m) /\ inp.hs = inp.as
    IN  [m EXCEPT !.home_score = NonNegative(inp.hs),
                  !.away_score = NonNegative(inp.as),
                  !.home_penalties = IF keep THEN inp.hp ELSE None,
                  !.away_penalties = IF keep THEN inp.ap ELSE None,
                  !.status = "finished"]

should_generate_next_round(fmt, m) ==
    /\ \/ fmt = "knockout"
       \/ fmt = "combination" /\ m.pitch # <<>> /\ ~Contains(m.pitch, GROUP_WORD)
    /\ m.pitch # <<>>

should_check_group_qualifiers(fmt, ctype, m) ==
    /\ fmt = "combination"
    /\ m.pitch # <<>> /\ Contains(m.pitch, GROUP_WORD)
    /\ ctype = "combinationB"

\* "If all matches are finished, mark tournament as completed"
AllMatchesFinished(ms) == Len(ms) > 0 /\ Len(Finished(ms)) = Len(ms)

\* "Check if tournament should be marked as completed"
CompletionCheck(ms, ts) == IF AllMatchesFinished(ms) THEN "completed" ELSE ts

\* the response and the rows after the group-qualifier step
AfterGroupCheck(ts, called, advanced, grp) ==
    [status |-> 200, matches |-> grp.matches,
     tstatus |-> CompletionCheck(grp.matches, ts),
     called |-> called, advanced |-> advanced, knockout_generated |-> grp.ok]

\* "Auto-generate knockout stage from groups if qualifiers can be determined"
GroupCheck(fmt, ctype, regs, m, ms) ==
    IF /\ should_check_group_qualifiers(fmt, ctype, m)
       /\ can_determine_group_qualifiers(fmt, ctype, regs, ms)
    THEN generate_knockout_stage_from_groups(regs, ms)
    ELSE NoRound(ms)

\* the request after "Auto-generate next knockout round if applicable"
AfterNextRound(fmt, ctype, regs, ts, m, gen) ==
    AfterGroupCheck(ts, should_generate_next_round(fmt, m), gen.ok,
                    GroupCheck(fmt, ctype, regs, m, gen.matches))

\* "Auto-generate next knockout round if applicable (AFTER transaction commits)"
NextRoundStep(fmt, m, ms) ==
    IF should_generate_next_round(fmt, m)
    THEN generate_next_knockout_round(ms, Strip(m.pitch))
    ELSE NoRound(ms)

\* the whole request, served alone
set_score(fmt, ctype, regs, ms, ts, i, inp) ==
    IF ScoreRejected(fmt, ms[i], inp)
    THEN [status |-> 400, matches |-> ms, tstatus |-> ts, called |-> FALSE,
          advanced |-> FALSE, knockout_generated |-> FALSE]
    ELSE AfterNextRound(fmt, ctype, regs, ts, ms[i],
            NextRoundStep(fmt, ms[i], [ms EXCEPT ![i] = ScoredMatch(fmt, ms[i], inp)]))

----------------------------------------------------------------------------
(* start, end and live update of a match: MatchViewSet, views.py           *)

start_match(ms, i) ==
    IF ms[i].status \in {"live", "finished"} THEN [status |-> 400, matches |-> ms]
    ELSE [status |-> 200, matches |-> [ms EXCEPT ![i].status = "live"]]

\* "Auto-generate next knockout round if applicable", on the raw pitch
EndMatchNextRound(fmt, m, ms) ==
    IF should_generate_next_round(fmt, m)
    THEN generate_next_knockout_round(ms, m.pitch)
    ELSE NoRound(ms)

EndMatchResponse(called, gen) ==
    [status |-> 200, matches |-> gen.matches, called |-> called, advanced |-> gen.ok]

end_match(fmt, ms, i) ==
    IF ms[i].status = "finished"
    THEN [status |-> 400, matches |-> ms, called |-> FALSE, advanced |-> FALSE]
    ELSE EndMatchResponse(should_generate_next_round(fmt, ms[i]),
            EndMatchNextRound(fmt, ms[i], [ms EXCEPT ![i].status = "finished"]))

\* PATCH through the ModelViewSet, used for the running score of a live match
update_live_score(ms, i, inp) ==
    [ms EXCEPT ![i].home_score = inp.hs, ![i].away_score = inp.as,
               ![i].home_penalties = inp.hp, ![i].away_penalties = inp.ap]

----------------------------------------------------------------------------
(* Round simulation: simulation_helpers.py                                 *)

IsDigit(c) == DigitVal(c) # None

\* lengths of the runs of blanks and of digits of s that start at position k
RECURSIVE SpaceRun(_, _)
SpaceRun(s, k) == IF k > Len(s) \/ s[k] # " " THEN 0 ELSE 1 + SpaceRun(s, k + 1)

RECURSIVE DigitRun(_, _)
DigitRun(s, k) == IF k > Len(s) \/ ~IsDigit(s[k]) THEN 0 ELSE 1 + DigitRun(s, k + 1)

\* re.search(r'Round\s+(\d+)', pitch, re.IGNORECASE): the number, or None
RoundRegex(pitch) ==
    LET low == LowerStr(pitch)
        word == <<"r", "o", "u", "n", "d">>
        spaces(i) == SpaceRun(low, i + 6)
        digits(i) == DigitRun(low, i + 6 + spaces(i))
        hits == {i \in 0..(Len(low) - 5) :
                    /\ SubSeq(low, i + 1, i + 5) = word
                    /\ spaces(i) >= 1
                    /\ digits(i) >= 1}
    IN  IF hits = {} THEN None
        ELSE LET i == MinOf(hits)
             IN  ParseInt(SubSeq(low, i + 6 + spaces(i),
                                 i + 5 + spaces(i) + digits(i)))

\* indices of the rows of ms that satisfy P, ordered by kickoff_at (then by id)
RECURSIVE OrderByKickoff(_, _)
OrderByKickoff(ms, idx) ==
    IF idx = {} THEN <<>>
    ELSE LET first == CHOOSE i \in idx : \A j \in idx :
                          \/ ms[i].kickoff_at < ms[j].kickoff_at
                          \/ ms[i].kickoff_at = ms[j].kickoff_at /\ i <= j
         IN  <<first>> \o OrderByKickoff(ms, idx \ {first})

\* rank of a date among the sorted distinct dates, counted from 1
DateIndex(dates, d) == Cardinality({e \in dates : e <= d})

\* the number in the pitch, or the rank of the kickoff date
RoundOf(m, dates) ==
    IF m.pitch # <<>> /\ RoundRegex(m.pitch) # None
    THEN RoundRegex(m.pitch)
    ELSE DateIndex(dates, m.kickoff_at)

\* combinationB: the scheduled matches of the earliest round
EarliestRound(ms, scheduled, dates, earliest_round) ==
    LET by_round == SelectSeq(scheduled,
                              LAMBDA i : RoundOf(ms[i], dates) = earliest_round)
    IN  [round_number |-> earliest_round, matches |-> by_round,
         is_league_stage |->
             ~(/\ ms[by_round[1]].pitch # <<>>
               /\ ~StartsWith(ms[by_round[1]].pitch, GROUP_WORD))]

\* other formats: the scheduled matches of the earliest date
EarliestDate(fmt, ms, scheduled, earliest_date, fin) ==
    [round_number |-> Cardinality({fin[k].kickoff_at : k \in 1..Len(fin)}) + 1,
     matches |-> SelectSeq(scheduled, LAMBDA i : ms[i].kickoff_at = earliest_date),
     is_league_stage |-> fmt # "knockout"]

NextRoundOf(fmt, ctype, ms, scheduled, dates) ==
    IF scheduled = <<>>
    THEN [round_number |-> None, matches |-> <<>>, is_league_stage |-> FALSE]
    ELSE IF fmt = "combination" /\ ctype = "combinationB"
    THEN EarliestRound(ms, scheduled, dates,
             MinOf({RoundOf(ms[scheduled[k]], dates) : k \in 1..Len(scheduled)}))
    ELSE EarliestDate(fmt, ms, scheduled, MinOf(dates), Finished(ms))

ScheduledByKickoff(ms) ==
    OrderByKickoff(ms, {i \in 1..Len(ms) : ms[i].status = "scheduled"})

\* returns the round number, the indices of its matches, and is_league_stage
get_next_round_matches(fmt, ctype, ms) ==
    NextRoundOf(fmt, ctype, ms, ScheduledByKickoff(ms),
                {ms[i].kickoff_at : i \in {j \in 1..Len(ms) : ms[j].status = "scheduled"}})

\* the matches of round_matches whose pitch carries a round number
Numbered(ms, round_matches) ==
    SelectSeq(round_matches,
              LAMBDA i : ms[i].pitch # <<>> /\ RoundRegex(ms[i].pitch) # None)

KeepRound(ms, round_matches, numbered, first_match_round) ==
    IF \A k \in 1..Len(numbered) : RoundRegex(ms[numbered[k]].pitch) = first_match_round
    THEN round_matches
    ELSE SelectSeq(numbered, LAMBDA i : RoundRegex(ms[i].pitch) = first_match_round)

SameRound(ms, round_matches, numbered) ==
    IF numbered = <<>> THEN round_matches
    ELSE KeepRound(ms, round_matches, numbered, RoundRegex(ms[numbered[1]].pitch))

\* "Safety check: Ensure all matches belong to the same round"
SameRoundOnly(ms, round_matches) ==
    SameRound(ms, round_matches, Numbered(ms, round_matches))

\* simulate_match: the drawn result out is written to the match, the tournament
\* is completed on the Final, and the two teams' counters are raised
simulate_match(fmt, db, i, out) ==
    LET m == db.matches[i]
        pens == is_knockout(fmt, m) /\ out.hs = out.as
        row == [m EXCEPT !.home_score = out.hs, !.away_score = out.as,
                         !.home_penalties = IF pens THEN out.hp ELSE None,
                         !.away_penalties = IF pens THEN out.ap ELSE None,
                         !.status = "finished"]
        is_final_match == /\ Contains(LowerStr(m.pitch), final_lower)
                          /\ Strip(LowerStr(m.pitch)) = final_lower
        h == m.home_team
        a == m.away_team
        s1 == [db.teamStats EXCEPT
                 ![h].goals_for = @ + out.hs, ![h].goals_against = @ + out.as,
                 ![h].wins = @ + (IF out.hs > out.as THEN 1 ELSE 0),
                 ![h].losses = @ + (IF out.as > out.hs THEN 1 ELSE 0),
                 ![h].draws = @ + (IF out.hs = out.as THEN 1 ELSE 0)]
        s2 == [s1 EXCEPT
                 ![a].goals_for = @ + out.as, ![a].goals_against = @ + out.hs,
                 ![a].wins = @ + (IF out.as > out.hs THEN 1 ELSE 0),
                 ![a].losses = @ + (IF out.hs > out.as THEN 1 ELSE 0),
                 ![a].draws = @ + (IF out.hs = out.as THEN 1 ELSE 0)]
    IN  [matches |-> [db.matches EXCEPT ![i] = row],
         tstatus |-> IF is_final_match THEN "completed" ELSE db.tstatus,
         teamStats |-> s2]

max_retries == 3

\* a database that is never locked
NoLock == [fails |-> 0, at |-> "write"]

\* the next attempt, or the entry in failed_matches after the last one
RetryOrFail(st, i, attempt) ==
    IF attempt < max_retries - 1 THEN st
    ELSE [st EXCEPT !.failed_matches = Append(@, st.db.matches[i].id)]

\* one pass of "for attempt in range(max_retries)" for the match at index i.
\* The first lock.fails attempts end in "database is locked", raised either by
\* the first write of simulate_match (nothing has run after it) or by the
\* commit on leaving the atomic block (all of the block has run, on the
\* match's cached team and tournament instances, and is rolled back).
RECURSIVE RetryLoop(_, _, _, _, _, _)
RetryLoop(fmt, st, i, out, lock, attempt) ==
    LET h == st.db.matches[i].home_team
        a == st.db.matches[i].away_team
        run == simulate_match(fmt, [matches |-> st.db.matches, tstatus |-> st.tournament,
                                    teamStats |-> st.teams], i, out)
        tried == [st EXCEPT !.attempts = @ + 1]
        committed ==
            [tried EXCEPT
               !.db = [matches |-> run.matches,
                       tstatus |-> IF run.tstatus # st.tournament THEN run.tstatus
                                   ELSE st.db.tstatus,
                       teamStats |-> [st.db.teamStats EXCEPT ![h] = run.teamStats[h],
                                                             ![a] = run.teamStats[a]]],
               !.matches_simulated = @ + 1]
        ran == [tried EXCEPT !.teams = run.teamStats, !.tournament = run.tstatus,
                             !.matches_simulated = @ + 1]
        raised == RetryOrFail(IF lock.at = "commit" THEN ran ELSE tried, i, attempt)
    IN  IF attempt >= max_retries THEN st
        ELSE IF attempt >= lock.fails THEN committed
        ELSE IF attempt < max_retries - 1
        THEN RetryLoop(fmt, raised, i, out, lock, attempt + 1)
        ELSE raised

\* the k-th match of the round draws outs[1] and meets locks[1] when k is odd,
\* outs[2] and locks[2] when even; its team and tournament instances are read
\* from the database when its first attempt starts
RECURSIVE SimulateAll(_, _, _, _, _, _)
SimulateAll(fmt, st, round_matches, outs, locks, k) ==
    IF k > Len(round_matches) THEN st
    ELSE SimulateAll(fmt,
                     RetryLoop(fmt, [st EXCEPT !.teams = st.db.teamStats,
                                               !.tournament = st.db.tstatus],
                               round_matches[k], outs[2 - (k % 2)],
                               locks[2 - (k % 2)], 0),
                     round_matches, outs, locks, k + 1)

\* the counters of simulate_round before its first match
Started(db) ==
    [db |-> db, teams |-> db.teamStats, tournament |-> db.tstatus,
     matches_simulated |-> 0, failed_matches |-> <<>>, attempts |-> 0]

SimulateResponse(db1, called, round, knockout_generated, simulated, gen) ==
    [status |-> 200, matches |-> gen.matches, tstatus |-> db1.tstatus,
     teamStats |-> db1.teamStats, called |-> called, round |-> round,
     advanced |-> gen.ok, knockout_generated |-> knockout_generated,
     simulated |-> simulated]

\* "generate next round after this round completes"
AfterStage(db1, call, completed_round_name, simulated, grp) ==
    SimulateResponse(db1, call, completed_round_name, grp.ok, simulated,
        IF call THEN generate_next_knockout_round(grp.matches, completed_round_name)
        ELSE NoRound(grp.matches))

\* "check if all group matches are complete and generate knockout stage"
AfterSimulation(fmt, ctype, regs, is_league_stage, completed_round_name, simulated, db1) ==
    AfterStage(db1,
        /\ ~is_league_stage /\ simulated > 0
        /\ Strip(completed_round_name) # <<>>
        /\ ~Contains(completed_round_name, GROUP_WORD),
        completed_round_name, simulated,
        IF /\ fmt = "combination" /\ ctype = "combinationB"
           /\ is_league_stage
           /\ Len(Unfinished(GroupMatches(db1.matches))) = 0
           /\ Len(GroupMatches(db1.matches)) > 0
        THEN generate_knockout_stage_from_groups(regs, db1.matches)
        ELSE NoRound(db1.matches))

\* the reply of simulate_round with the counters of the loop
Reported(done, r) ==
    r @@ [matches_simulated |-> done.matches_simulated,
          matches_failed |-> Len(done.failed_matches),
          failed_matches |-> done.failed_matches,
          attempts |-> done.attempts]

SimulateValidated(fmt, ctype, regs, db, outs, locks, is_league_stage, round_matches) ==
    LET done == SimulateAll(fmt, Started(db), round_matches, outs, locks, 1)
    IN  Reported(done,
            AfterSimulation(fmt, ctype, regs, is_league_stage,
                IF round_matches = <<>> THEN <<>> ELSE db.matches[round_matches[1]].pitch,
                done.matches_simulated, done.db))

SimulateFrom(fmt, ctype, regs, db, outs, locks, nx) ==
    IF nx.matches = <<>>
    THEN Reported(Started(db),
             [status |-> 200, matches |-> db.matches, tstatus |-> db.tstatus,
              teamStats |-> db.teamStats, called |-> FALSE, round |-> <<>>,
              advanced |-> FALSE, knockout_generated |-> FALSE, simulated |-> 0])
    ELSE SimulateValidated(fmt, ctype, regs, db, outs, locks, nx.is_league_stage,
                           SameRoundOnly(db.matches, nx.matches))

\* simulate_round while the database answers the attempts of each match as
\* locks says
simulate_round_locked(fmt, ctype, regs, db, outs, locks) ==
    SimulateFrom(fmt, ctype, regs, db, outs, locks,
                 get_next_round_matches(fmt, ctype, db.matches))

\* simulate_round while no other connection holds the database
simulate_round(fmt, ctype, regs, db, outs) ==
    simulate_round_locked(fmt, ctype, regs, db, outs, <<NoLock, NoLock>>)

----------------------------------------------------------------------------
(* Bounds and inputs                                                       *)

MaxK == 6          \* a scripted knockout starts with up to 2^MaxK teams

Procs == {1, 2}

\* the tournaments that are explored freely: format and number of teams
Configs ==
    {<<"knockout", 2>>, <<"knockout", 3>>, <<"knockout", 4>>, <<"knockout", 6>>}

\* request bodies of set_score: home_score, away_score, home_penalties, away_penalties
ScoreInputs ==
    { [hs |-> 3, as |-> 1, hp |-> None, ap |-> None],
      [hs |-> 2, as |-> 2, hp |-> 4, ap |-> 5],
      [hs |-> 2, as |-> 2, hp |-> None, ap |-> None],
      [hs |-> 1, as |-> 1, hp |-> 4, ap |-> 4],
      [hs |-> 1, as |-> 1, hp |-> 4, ap |-> None],
      [hs |-> -1, as |-> -2, hp |-> None, ap |-> None] }

\* running scores written to a live match
LiveInputs == { [hs |-> 3, as |-> 1, hp |-> None, ap |-> None] }

\* results simulate_match can draw; the penalties are drawn unequal
SimOutcomes ==
    { [hs |-> 3, as |-> 1, hp |-> 5, ap |-> 4],
      [hs |-> 2, as |-> 2, hp |-> 4, ap |-> 5] }

Days == {1}

NoLast ==
    [op |-> "none", status |-> 0, round |-> <<>>, called |-> FALSE,
     advanced |-> FALSE, knockout_generated |-> FALSE]

NoStats == [wins |-> 0, draws |-> 0, losses |-> 0, goals_for |-> 0, goals_against |-> 0]

\* what a request in flight holds: the match it scores, the round name it
\* advances from, the winners it has read and the finished matches it counted
NoLoc ==
    [match |-> 0, round |-> <<>>, winners |-> <<>>, group_qualifiers |-> <<>>,
     all_finished |-> 0]

\* no call of generate_round_robin_for_group has been made
NoRR ==
    [calls |-> 0, group_teams |-> <<>>, group_name |-> <<>>, start_round |-> 0,
     result |-> <<>>]

\* a tournament with n registered teams and nothing generated yet
Fresh(fmt, n) ==
    /\ format = fmt
    /\ combination_type = IF fmt = "combination" THEN "combinationB" ELSE "combinationA"
    /\ tstatus = "open"
    /\ registrations = [i \in 1..n |-> [team |-> i, status |-> "paid"]]
    /\ matches = <<>>
    /\ teamStats = [t \in 1..n |-> NoStats]
    /\ last = NoLast
    /\ pc = [p \in Procs |-> "idle"]
    /\ loc = [p \in Procs |-> NoLoc]
    /\ rr = NoRR

----------------------------------------------------------------------------
(* Requests served one at a time                                           *)

\* the rows and the tournament as the request leaves them, and its outcome
Respond(op, round, r, stats) ==
    /\ matches' = r.matches
    /\ tstatus' = r.tstatus
    /\ teamStats' = stats
    /\ last' = [op |-> op, status |-> r.status, round |-> round, called |-> r.called,
                advanced |-> r.advanced, knockout_generated |-> r.knockout_generated]
    /\ UNCHANGED <<format, combination_type, registrations, plan, pc, loc, rr>>

\* a response of a request that leaves the tournament's status alone
Plain(r, ts, called, advanced) ==
    [status |-> r.status, matches |-> r.matches, tstatus |-> ts, called |-> called,
     advanced |-> advanced, knockout_generated |-> FALSE]

GenerateFixtures ==
    \E now \in Days :
       Respond("generate_fixtures", <<>>,
               Plain(generate_fixtures(format, combination_type, registrations,
                                       matches, now), tstatus, FALSE, FALSE),
               teamStats)

SetScore(i, inp) ==
    Respond("set_score", matches[i].pitch,
            set_score(format, combination_type, registrations, matches, tstatus, i, inp),
            teamStats)

StartMatch(i) ==
    Respond("start_match", matches[i].pitch,
            Plain(start_match(matches, i), tstatus, FALSE, FALSE), teamStats)

EndReply(r, ts) == Plain(r, ts, r.called, r.advanced)

EndMatch(i) ==
    Respond("end_match", matches[i].pitch,
            EndReply(end_match(format, matches, i), tstatus), teamStats)

UpdateLiveScore(i, inp) ==
    /\ matches[i].status = "live"
    /\ Respond("update", matches[i].pitch,
               Plain([status |-> 200, matches |-> update_live_score(matches, i, inp)],
                     tstatus, FALSE, FALSE),
               teamStats)

SimulateReply(r) == Respond("simulate_round", r.round, r, r.teamStats)

SimulateRoundWith(o1, o2) ==
    SimulateReply(simulate_round(format, combination_type, registrations,
                                 [matches |-> matches, tstatus |-> tstatus,
                                  teamStats |-> teamStats], <<o1, o2>>))

SimulateRound == \E o1, o2 \in SimOutcomes : SimulateRoundWith(o1, o2)

KnockoutsResponse(r, ts) ==
    [status |-> r.status, matches |-> r.matches, tstatus |-> ts, called |-> FALSE,
     advanced |-> FALSE, knockout_generated |-> r.generated]

GenerateKnockouts ==
    Respond("generate_knockouts", <<>>,
            KnockoutsResponse(generate_knockouts(format, combination_type,
                                                 registrations, matches), tstatus),
            teamStats)

StageResponse(r, ts) ==
    [status |-> 0, matches |-> r.matches, tstatus |-> ts, called |-> FALSE,
     advanced |-> FALSE, knockout_generated |-> r.ok]

\* generate_knockout_stage_from_groups called by itself
KnockoutStageFromGroups ==
    Respond("generate_knockout_stage_from_groups", <<>>,
            StageResponse(generate_knockout_stage_from_groups(registrations, matches),
                          tstatus),
            teamStats)

Init ==
    /\ plan = ""
    /\ \E c \in Configs : Fresh(c[1], c[2])

Next ==
    \/ GenerateFixtures
    \/ \E i \in 1..Len(matches), inp \in ScoreInputs : SetScore(i, inp)
    \/ \E i \in 1..Len(matches) : StartMatch(i)
    \/ \E i \in 1..Len(matches) : EndMatch(i)
    \/ \E i \in 1..Len(matches), inp \in LiveInputs : UpdateLiveScore(i, inp)
    \/ SimulateRound

Spec == Init /\ [][Next]_vars

----------------------------------------------------------------------------
(* A bracket of eight: results entered or matches ended in any order       *)

\* the number of teams the bracket starts with
EightTeams == {8}

\* request bodies of set_score: a home win, and two scores below zero
BracketInputs ==
    { [hs |-> 3, as |-> 1, hp |-> None, ap |-> None],
      [hs |-> -1, as |-> -2, hp |-> None, ap |-> None] }

InitBracket ==
    /\ plan = ""
    /\ \E n \in EightTeams : Fresh("knockout", n)

NextBracket ==
    \/ GenerateFixtures
    \/ \E i \in 1..Len(matches), inp \in BracketInputs : SetScore(i, inp)
    \/ \E i \in 1..Len(matches) : EndMatch(i)

SpecBracket == InitBracket /\ [][NextBracket]_vars

----------------------------------------------------------------------------
(* A knockout played to its end: every scheduled match gets a decisive     *)
(* result sooner or later                                                  *)

\* the numbers of teams the tournament starts with
StartSizes == {2, 4, 8}

\* decisive request bodies of set_score: on goals, and on penalties
DecisiveInputs ==
    { [hs |-> 3, as |-> 1, hp |-> None, ap |-> None],
      [hs |-> 2, as |-> 2, hp |-> 4, ap |-> 5] }

\* a scheduled match is given its result, whichever match it is
ScoreScheduled ==
    \E i \in 1..Len(matches), inp \in DecisiveInputs :
       matches[i].status = "scheduled" /\ SetScore(i, inp)

\* the tournament is started by the generate-fixtures request
StartTournament == matches = <<>> /\ GenerateFixtures

InitLive ==
    /\ plan = ""
    /\ \E n \in StartSizes : Fresh("knockout", n)

NextLive ==
    \/ StartTournament
    \/ ScoreScheduled

\* the organiser keeps going: the tournament is started, and while a match
\* is scheduled some scheduled match is scored
SpecLive ==
    InitLive /\ [][NextLive]_vars /\ WF_vars(StartTournament) /\ WF_vars(ScoreScheduled)

----------------------------------------------------------------------------
(* Scripted runs: the organiser enters the results match by match          *)

Plans == {"home", "away", "example", "shootout", "draw"}

\* team counts of the scripted combinationB tournaments: 2 groups and 4 groups
GroupStageSizes == {4, 6, 16}

\* the result the script enters for match m
PlanInput(p, m) ==
    CASE p = "home" -> [hs |-> 3, as |-> 1, hp |-> None, ap |-> None]
      [] p = "draw" -> [hs |-> 3, as |-> 1, hp |-> None, ap |-> None]
      [] p = "away" -> [hs |-> 1, as |-> 3, hp |-> None, ap |-> None]
      [] p = "example" ->
            IF m.id % 2 = 1 THEN [hs |-> 3, as |-> 1, hp |-> None, ap |-> None]
            ELSE [hs |-> 2, as |-> 2, hp |-> 5, ap |-> 4]
      [] OTHER ->
            IF m.id % 2 = 1 THEN [hs |-> 2, as |-> 2, hp |-> 4, ap |-> 5]
            ELSE [hs |-> 2, as |-> 2, hp |-> 5, ap |-> 4]

RECURSIVE Pow2(_)
Pow2(k) == IF k = 0 THEN 1 ELSE 2 * Pow2(k - 1)

\* under the plan "draw" the second Semi-Final is ended without a score
DrawnByPlan(p, m) == p = "draw" /\ m.pitch = SEMI_FINALS /\ m.id % 2 = 0

\* the result the script enters when it corrects match m
CorrectedInput(p, m) ==
    IF DrawnByPlan(p, m) THEN [hs |-> 2, as |-> 2, hp |-> 4, ap |-> 5]
    ELSE PlanInput(p, m)

\* the first match that is not finished yet
NextToPlay == MinOf({j \in 1..Len(matches) : matches[j].status # "finished"})

\* the two matches that were finished last
LastPlayed ==
    LET fin == {j \in 1..Len(matches) : matches[j].status = "finished"}
    IN  {j \in fin : Cardinality({h \in fin : h > j}) < 2}

\* the next match and the one after it
Upcoming ==
    LET open == {j \in 1..Len(matches) : matches[j].status # "finished"}
    IN  {j \in open : Cardinality({h \in open : h < j}) < 2}

\* one of the upcoming matches is started
ScriptStart ==
    \E i \in Upcoming : matches[i].status = "scheduled" /\ StartMatch(i)

\* the next match gets its result
ScriptScore ==
    /\ Len(Unfinished(matches)) > 0
    /\ ~DrawnByPlan(plan, matches[NextToPlay])
    /\ SetScore(NextToPlay, PlanInput(plan, matches[NextToPlay]))

\* the next match is ended as it stands
ScriptEnd ==
    /\ Len(Unfinished(matches)) > 0
    /\ DrawnByPlan(plan, matches[NextToPlay])
    /\ EndMatch(NextToPlay)

\* the result of one of the matches finished last is entered again
ScriptCorrect ==
    \E i \in LastPlayed : SetScore(i, CorrectedInput(plan, matches[i]))

InitScript ==
    /\ plan \in Plans
    /\ \/ \E k \in 1..MaxK : Fresh("knockout", Pow2(k))
       \/ \E n \in GroupStageSizes : Fresh("combination", n)

NextScript ==
    \/ GenerateFixtures
    \/ ScriptStart
    \/ ScriptScore
    \/ ScriptEnd
    \/ ScriptCorrect

SpecScript == InitScript /\ [][NextScript]_vars

----------------------------------------------------------------------------
(* Two score entries served at the same time, each query a step of its own *)

\* team counts of the knockout tournaments scored concurrently
ConcSizes == {4, 8}

\* team counts of the combinationB tournaments scored concurrently
ConcGroupSizes == {4}

ConcInputs == { [hs |-> 2, as |-> 2, hp |-> 4, ap |-> 5] }

Goto(p, label, l) ==
    /\ pc' = [pc EXCEPT ![p] = label]
    /\ loc' = [loc EXCEPT ![p] = l]

\* the validation and the transaction that stores the result
Submit(p, i, inp) ==
    /\ pc[p] = "idle"
    /\ matches[i].status # "finished"
    /\ \A q \in Procs : loc[q].match # i
    /\ ~ScoreRejected(format, matches[i], inp)
    /\ matches' = [matches EXCEPT ![i] = ScoredMatch(format, matches[i], inp)]
    /\ Goto(p, IF should_generate_next_round(format, matches[i]) THEN "round"
                ELSE "groups",
            [NoLoc EXCEPT !.match = i, !.round = Strip(matches[i].pitch)])
    /\ UNCHANGED <<format, combination_type, tstatus, registrations, teamStats,
                   last, plan, rr>>

\* "Check if all matches in this round are finished"
CheckRound(p) ==
    /\ pc[p] = "round"
    /\ LET round_matches == CompletedRoundMatches(matches, loc[p].round)
       IN  Goto(p, IF \/ loc[p].round = <<>>
                      \/ Len(round_matches) = 0
                      \/ Len(Unfinished(round_matches)) > 0
                   THEN "groups" ELSE "winners", loc[p])
    /\ UNCHANGED <<format, combination_type, tstatus, registrations, matches,
                   teamStats, last, plan, rr>>

\* "Get winners from completed matches"
ReadWinners(p) ==
    /\ pc[p] = "winners"
    /\ LET winners == Winners(CompletedRoundMatches(matches, loc[p].round))
       IN  Goto(p, IF Len(winners) < 2 THEN "groups" ELSE "exists",
                [loc[p] EXCEPT !.winners = winners])
    /\ UNCHANGED <<format, combination_type, tstatus, registrations, matches,
                   teamStats, last, plan, rr>>

\* "Check if next round already exists"
CheckExists(p) ==
    /\ pc[p] = "exists"
    /\ Goto(p, IF NextRoundExists(matches, get_round_name(Len(loc[p].winners)))
               THEN "groups" ELSE "create", loc[p])
    /\ UNCHANGED <<format, combination_type, tstatus, registrations, matches,
                   teamStats, last, plan, rr>>

\* "Create matches for next round"
CreateRound(p) ==
    /\ pc[p] = "create"
    /\ matches' = matches \o
          NextRoundRows(matches, loc[p].winners, get_round_name(Len(loc[p].winners)),
              NextRoundDate(CompletedRoundMatches(matches, loc[p].round)))
    /\ Goto(p, "groups", loc[p])
    /\ UNCHANGED <<format, combination_type, tstatus, registrations, teamStats,
                   last, plan, rr>>

\* "Auto-generate knockout stage from groups if qualifiers can be determined":
\* the queries of can_determine_group_qualifiers
CheckGroups(p) ==
    /\ pc[p] = "groups"
    /\ Goto(p, IF /\ should_check_group_qualifiers(format, combination_type,
                                                    matches[loc[p].match])
                  /\ can_determine_group_qualifiers(format, combination_type,
                                                    registrations, matches)
               THEN "stage" ELSE "count", loc[p])
    /\ UNCHANGED <<format, combination_type, tstatus, registrations, matches,
                   teamStats, last, plan, rr>>

\* generate_knockout_stage_from_groups up to the qualifiers: "Check if knockout
\* stage already exists" and the standings of the finished matches
ReadQualifiers(p) ==
    /\ pc[p] = "stage"
    /\ LET group_qualifiers ==
               GroupQualifiers(generate_groups(RegisteredTeams(registrations)),
                               Finished(matches))
       IN  Goto(p, IF \/ Len(KnockoutMatches(matches)) > 0
                      \/ Len(RegisteredTeams(registrations)) < 4
                      \/ Len(group_qualifiers) < 2
                   THEN "count" ELSE "knockouts",
                [loc[p] EXCEPT !.group_qualifiers = group_qualifiers])
    /\ UNCHANGED <<format, combination_type, tstatus, registrations, matches,
                   teamStats, last, plan, rr>>

\* the date of the last group match is read and the pairings are created
CreateKnockouts(p) ==
    /\ pc[p] = "knockouts"
    /\ matches' =
          IF Len(GroupMatches(matches)) = 0 THEN matches
          ELSE matches \o
               CrossoverRows(loc[p].group_qualifiers,
                   MaxOf({m.kickoff_at : m \in Range(GroupMatches(matches))}) + 1,
                   get_round_name(Len(loc[p].group_qualifiers) * 2),
                   NextId(matches))
    /\ Goto(p, "count", loc[p])
    /\ UNCHANGED <<format, combination_type, tstatus, registrations, teamStats,
                   last, plan, rr>>

\* all_finished = all_matches.filter(status='finished').count()
CountFinished(p) ==
    /\ pc[p] = "count"
    /\ Goto(p, "complete", [loc[p] EXCEPT !.all_finished = Len(Finished(matches))])
    /\ UNCHANGED <<format, combination_type, tstatus, registrations, matches,
                   teamStats, last, plan, rr>>

\* total_matches = all_matches.count(), and the tournament is saved
Complete(p) ==
    /\ pc[p] = "complete"
    /\ tstatus' = IF Len(matches) > 0 /\ loc[p].all_finished = Len(matches)
                  THEN "completed" ELSE tstatus
    /\ Goto(p, "idle", NoLoc)
    /\ UNCHANGED <<format, combination_type, registrations, matches, teamStats,
                   last, plan, rr>>

\* fixtures are generated while no score entry is in flight
ConcFixtures ==
    /\ \A p \in Procs : pc[p] = "idle"
    /\ GenerateFixtures

InitConc ==
    /\ plan = ""
    /\ \/ \E n \in ConcSizes : Fresh("knockout", n)
       \/ \E n \in ConcGroupSizes : Fresh("combination", n)

NextConc ==
    \/ ConcFixtures
    \/ \E p \in Procs, i \in 1..Len(matches), inp \in ConcInputs : Submit(p, i, inp)
    \/ \E p \in Procs : CheckRound(p)
    \/ \E p \in Procs : ReadWinners(p)
    \/ \E p \in Procs : CheckExists(p)
    \/ \E p \in Procs : CreateRound(p)
    \/ \E p \in Procs : CheckGroups(p)
    \/ \E p \in Procs : ReadQualifiers(p)
    \/ \E p \in Procs : CreateKnockouts(p)
    \/ \E p \in Procs : CountFinished(p)
    \/ \E p \in Procs : Complete(p)

SpecConc == InitConc /\ [][NextConc]_vars

----------------------------------------------------------------------------
(* Groups and knockout: combinationB tournaments explored freely           *)

\* team counts of the combinationB tournaments explored freely
GroupSizes == {4}

\* results entered for the matches of these tournaments
GroupInputs ==
    { [hs |-> 3, as |-> 1, hp |-> None, ap |-> None],
      [hs |-> 1, as |-> 1, hp |-> None, ap |-> None] }

InitGroups ==
    /\ plan = ""
    /\ \E n \in GroupSizes : Fresh("combination", n)

NextGroups ==
    \/ GenerateFixtures
    \/ \E i \in 1..Len(matches), inp \in GroupInputs : SetScore(i, inp)
    \/ \E i \in 1..Len(matches) : StartMatch(i)
    \/ SimulateRound
    \/ GenerateKnockouts
    \/ KnockoutStageFromGroups

SpecGroups == InitGroups /\ [][NextGroups]_vars

----------------------------------------------------------------------------
(* Round robin of one group, called directly                               *)

MaxGroupSize == 4  \* a group has up to MaxGroupSize teams

\* the orderings of n distinct teams
Orderings(n) ==
    {f \in [1..n -> 1..MaxGroupSize] : \A i, j \in 1..n : i # j => f[i] # f[j]}

\* a match of another group that is already stored
OtherGroupMatch(group_name) ==
    NewMatch(1, 1, 2, 0,
             GroupPitch(IF group_name = GroupName(1) THEN GroupName(2)
                        ELSE GroupName(1), 1))

\* the group's fixtures are generated and the new rows are saved
RoundRobin ==
    /\ rr.calls < 2
    /\ LET result == generate_round_robin_for_group(rr.group_teams, matches,
                          rr.group_name, 0, rr.start_round)
           unsaved == SelectSeq([i \in 1..Len(result) |-> result[i].match],
                                LAMBDA m : m.id = 0)
       IN  /\ rr' = [rr EXCEPT !.calls = @ + 1, !.result = result]
           /\ matches' = SaveAll(matches, unsaved)
    /\ UNCHANGED <<format, combination_type, tstatus, registrations, teamStats,
                   last, plan, pc, loc>>

InitRR ==
    /\ format = "combination"
    /\ combination_type = "combinationB"
    /\ tstatus = "open"
    /\ teamStats = [t \in 1..MaxGroupSize |-> NoStats]
    /\ last = NoLast
    /\ plan = ""
    /\ pc = [p \in Procs |-> "idle"]
    /\ loc = [p \in Procs |-> NoLoc]
    /\ \E n \in 2..MaxGroupSize, g \in 1..2, start_round \in 1..2 :
          \E f \in Orderings(n) :
             /\ registrations = [i \in 1..n |-> [team |-> f[i], status |-> "paid"]]
             /\ rr = [NoRR EXCEPT !.group_teams = f, !.group_name = GroupName(g),
                                  !.start_round = start_round]
             /\ matches \in {<<>>, <<OtherGroupMatch(GroupName(g))>>}

NextRR == RoundRobin

SpecRR == InitRR /\ [][NextRR]_vars

\* the unordered pairs of the matches of a call's result
ResultPairs(result) ==
    [i \in 1..Len(result) |->
        SortedPair(result[i].match.home_team, result[i].match.away_team)]

\* the number of matches of the result that team t plays in
Appearances(result, t) ==
    Cardinality({i \in 1..Len(result) :
                    t \in {result[i].match.home_team, result[i].match.away_team}})

----------------------------------------------------------------------------
(* Grouping of a team list, called directly                                *)

MaxTeams == 17     \* a team list has up to MaxTeams teams

\* the team list 1..n rotated by k places
Rotated(n, k) == [i \in 1..n |-> ((i + k - 1) % n) + 1]

\* generate_groups is called; rr holds the list and the groups returned
Grouping ==
    /\ rr.calls < 2
    /\ rr' = [rr EXCEPT !.calls = @ + 1, !.result = generate_groups(rr.group_teams)]
    /\ UNCHANGED <<format, combination_type, tstatus, registrations, matches,
                   teamStats, last, plan, pc, loc>>

InitGrouping ==
    /\ format = "combination"
    /\ combination_type = "combinationB"
    /\ tstatus = "open"
    /\ matches = <<>>
    /\ teamStats = [t \in 1..MaxTeams |-> NoStats]
    /\ last = NoLast
    /\ plan = ""
    /\ pc = [p \in Procs |-> "idle"]
    /\ loc = [p \in Procs |-> NoLoc]
    /\ \E n \in 1..MaxTeams, k \in 0..(MaxTeams - 1) :
          /\ k < n
          /\ registrations = [i \in 1..n |-> [team |-> Rotated(n, k)[i],
                                               status |-> "paid"]]
          /\ rr = [NoRR EXCEPT !.group_teams = Rotated(n, k)]

SpecGrouping == InitGrouping /\ [][Grouping]_vars

----------------------------------------------------------------------------
(* First-round and league fixtures of a team list, called directly         *)

\* the function called on rr.group_teams from the day rr.start_round; rr
\* holds the rows returned
Called(op, status, d, rows) ==
    /\ rr.calls < 1
    /\ rr' = [rr EXCEPT !.calls = @ + 1, !.start_round = d, !.result = rows]
    /\ last' = [NoLast EXCEPT !.op = op, !.status = status]
    /\ UNCHANGED <<format, combination_type, tstatus, registrations, matches,
                   teamStats, plan, pc, loc>>

KnockoutFixtures ==
    \E d \in 0..1 :
       Called("generate_knockout_fixtures",
              IF generate_knockout_fixtures(rr.group_teams, d).error THEN 500 ELSE 200,
              d, generate_knockout_fixtures(rr.group_teams, d).rows)

LeagueFixtures ==
    \E d \in 0..1 :
       Called("generate_league_fixtures", 200, d,
              generate_league_fixtures(rr.group_teams, d))

NextFixtures == KnockoutFixtures \/ LeagueFixtures

SpecFixtures == InitGrouping /\ [][NextFixtures]_vars

----------------------------------------------------------------------------
(* Teams registered in an order of their own                               *)

\* team counts of the tournaments whose teams register in any order
OrderSizes == {4}

InitOrder ==
    /\ format = "combination"
    /\ combination_type = "combinationB"
    /\ tstatus = "open"
    /\ matches = <<>>
    /\ last = NoLast
    /\ plan = ""
    /\ pc = [p \in Procs |-> "idle"]
    /\ loc = [p \in Procs |-> NoLoc]
    /\ rr = NoRR
    /\ \E n \in OrderSizes :
          /\ teamStats = [t \in 1..n |-> NoStats]
          /\ \E f \in [1..n -> 1..n] :
                /\ \A i, j \in 1..n : i # j => f[i] # f[j]
                /\ registrations = [i \in 1..n |-> [team |-> f[i], status |-> "paid"]]

NextOrder ==
    \/ GenerateFixtures
    \/ \E i \in 1..Len(matches), inp \in GroupInputs : SetScore(i, inp)
    \/ KnockoutStageFromGroups

SpecOrder == InitOrder /\ [][NextOrder]_vars

----------------------------------------------------------------------------
(* Standings of a group, called directly                                   *)

MaxGoals == 2      \* a side scores up to MaxGoals goals

\* a stored match of the group in one of its conditions: scheduled, live with
\* the home side a goal up, or finished with any result
StoredGroupMatch(id, home, away, c) ==
    [NewMatch(id, home, away, 0, GroupPitch(GroupName(1), id))
        EXCEPT !.status = c.status, !.home_score = c.hs, !.away_score = c.as]

Conditions ==
    { [status |-> "scheduled", hs |-> 0, as |-> 0], [status |-> "live", hs |-> 1, as |-> 0] }
        \cup [status : {"finished"}, hs : 0..MaxGoals, as : 0..MaxGoals]

\* the team lists handed to calculate_group_standings
TeamLists == {Rotated(3, k) : k \in 0..2} \cup {<<1, 3>>}

\* a finished match of the other group between two of the teams
OtherGroupResult ==
    [OtherGroupMatch(GroupName(1)) EXCEPT !.id = 4, !.status = "finished",
                                          !.home_score = 2]

\* calculate_group_standings is called; rr holds the list and the rows returned
Standings ==
    /\ rr.calls < 1
    /\ rr' = [rr EXCEPT !.calls = @ + 1,
                        !.result = calculate_group_standings(rr.group_teams, matches,
                                                             rr.group_name)]
    /\ UNCHANGED <<format, combination_type, tstatus, registrations, matches,
                   teamStats, last, plan, pc, loc>>

InitStandings ==
    /\ format = "combination"
    /\ combination_type = "combinationB"
    /\ tstatus = "open"
    /\ registrations = [i \in 1..3 |-> [team |-> i, status |-> "paid"]]
    /\ teamStats = [t \in 1..3 |-> NoStats]
    /\ last = NoLast
    /\ plan = ""
    /\ pc = [p \in Procs |-> "idle"]
    /\ loc = [p \in Procs |-> NoLoc]
    /\ \E teams \in TeamLists :
          rr = [NoRR EXCEPT !.group_teams = teams, !.group_name = GroupName(1)]
    /\ \E c1, c2, c3 \in Conditions :
          matches \in { <<StoredGroupMatch(1, 1, 2, c1), StoredGroupMatch(2, 2, 3, c2), StoredGroupMatch(3, 1, 3, c3)>>
                           \o tail : tail \in {<<>>, <<OtherGroupResult>>} }

SpecStandings == InitStandings /\ [][Standings]_vars

----------------------------------------------------------------------------
(* Validation of a group's fixtures, called directly                       *)

MaxStored == 4     \* up to MaxStored matches are stored

\* the rows the stored matches are drawn from: Group A matches between the
\* teams 1..3 and with team 4, and a Group B match
StoredRows ==
    { NewMatch(0, p[1], p[2], 0, GroupPitch(GroupName(1), 1)) :
         p \in {<<1, 2>>, <<2, 1>>, <<1, 3>>, <<2, 3>>, <<1, 4>>} }
      \cup { NewMatch(0, 2, 3, 0, GroupPitch(GroupName(2), 1)) }

\* validate_round_robin_completeness is called; rr holds the list and the report
Validate ==
    /\ rr.calls < 1
    /\ rr' = [rr EXCEPT !.calls = @ + 1,
                        !.result = validate_round_robin_completeness(
                                       rr.group_teams, matches, rr.group_name)]
    /\ UNCHANGED <<format, combination_type, tstatus, registrations, matches,
                   teamStats, last, plan, pc, loc>>

InitValidate ==
    /\ format = "combination"
    /\ combination_type = "combinationB"
    /\ tstatus = "open"
    /\ registrations = [i \in 1..4 |-> [team |-> i, status |-> "paid"]]
    /\ teamStats = [t \in 1..4 |-> NoStats]
    /\ last = NoLast
    /\ plan = ""
    /\ pc = [p \in Procs |-> "idle"]
    /\ loc = [p \in Procs |-> NoLoc]
    /\ \E teams \in TeamLists :
          rr = [NoRR EXCEPT !.group_teams = teams, !.group_name = GroupName(1)]
    /\ \E k \in 0..MaxStored :
          \E rows \in [1..k -> StoredRows] : matches = SaveAll(<<>>, rows)

SpecValidate == InitValidate /\ [][Validate]_vars

----------------------------------------------------------------------------
(* Round robin of a group that already has some of its matches             *)
(****************************************************************************)
\* the team lists handed to generate_round_robin_for_group
TopUpLists == TeamLists \cup {<<1, 2, 3, 4>>}

InitTopUp ==
    /\ format = "combination"
    /\ combination_type = "combinationB"
    /\ tstatus = "open"
    /\ registrations = [i \in 1..4 |-> [team |-> i, status |-> "paid"]]
    /\ teamStats = [t \in 1..4 |-> NoStats]
    /\ last = NoLast
    /\ plan = ""
    /\ pc = [p \in Procs |-> "idle"]
    /\ loc = [p \in Procs |-> NoLoc]
    /\ \E teams \in TopUpLists :
          rr = [NoRR EXCEPT !.group_teams = teams, !.group_name = GroupName(1),
                            !.start_round = 1]
    /\ \E k \in 0..MaxStored :
          \E rows \in [1..k -> StoredRows] : matches = SaveAll(<<>>, rows)

SpecTopUp == InitTopUp /\ [][RoundRobin]_vars

----------------------------------------------------------------------------
(* The standings request during the group stage                            *)

\* team counts of the tournaments whose standings are requested
TableSizes == {4, 6}

\* TournamentViewSet.standings: the rows of the response, group by group for
\* combinationB and one table otherwise
standings(fmt, ctype, regs, ms) ==
    LET teams == TournamentTeams(regs)
        fin == Finished(ms)
        groups == generate_groups(teams)
        of(t) == SelectSeq(fin, LAMBDA m : m.home_team = t \/ m.away_team = t)
        gf(m, t) == IF m.home_team = t THEN m.home_score ELSE m.away_score
        ga(m, t) == IF m.home_team = t THEN m.away_score ELSE m.home_score
        total(s, f(_)) == SumSeq([i \in 1..Len(s) |-> f(s[i])])
        row(t) ==
            [team |-> t, played |-> Len(of(t)),
             wins |-> Len(SelectSeq(of(t), LAMBDA m : gf(m, t) > ga(m, t))),
             draws |-> Len(SelectSeq(of(t), LAMBDA m : gf(m, t) = ga(m, t))),
             losses |-> Len(SelectSeq(of(t), LAMBDA m : gf(m, t) < ga(m, t))),
             goals_for |-> total(of(t), LAMBDA m : gf(m, t)),
             goals_against |-> total(of(t), LAMBDA m : ga(m, t)),
             goal_difference |-> total(of(t), LAMBDA m : gf(m, t))
                                   - total(of(t), LAMBDA m : ga(m, t)),
             points |-> 3 * Len(SelectSeq(of(t), LAMBDA m : gf(m, t) > ga(m, t)))
                          + Len(SelectSeq(of(t), LAMBDA m : gf(m, t) = ga(m, t)))]
    IN  IF fmt = "combination" /\ ctype = "combinationB"
        THEN [g \in 1..Len(groups) |->
                 [name |-> groups[g].name,
                  rows |-> calculate_group_standings(groups[g].teams, fin,
                                                     groups[g].name)]]
        ELSE << [name |-> <<>>,
                 rows |-> SortStandings([i \in 1..Len(teams) |-> row(teams[i])])] >>

\* the standings of the tournament are requested; rr holds the response
GetStandings ==
    /\ rr.calls < 1
    /\ rr' = [rr EXCEPT !.calls = @ + 1,
                        !.result = standings(format, combination_type,
                                             registrations, matches)]
    /\ UNCHANGED <<format, combination_type, tstatus, registrations, matches,
                   teamStats, last, plan, pc, loc>>

InitTable ==
    /\ plan = ""
    /\ \E n \in TableSizes : Fresh(IF n = 4 THEN "knockout" ELSE "combination", n)

\* results are entered for scheduled matches until the standings are requested
NextTable ==
    \/ rr.calls = 0 /\ GenerateFixtures
    \/ \E i \in 1..Len(matches), inp \in GroupInputs :
          /\ rr.calls = 0
          /\ matches[i].status = "scheduled"
          /\ SetScore(i, inp)
    \/ GetStandings

SpecTable == InitTable /\ [][NextTable]_vars

\* C15: for a list of N >= 1 teams generate_groups returns g groups, g = 2
\* for N < 16 and 4 otherwise, named Group A, Group B, ... in order; they are
\* contiguous blocks of the list in its order, the first N mod g of them with
\* floor(N/g) + 1 teams and the others with floor(N/g), so every team is in
\* exactly one group and the sizes differ by at most 1; a second call with the
\* same list returns the same groups.
C15_GroupsBalanced ==
    [][ rr'.calls >= 1 =>
          LET teams == rr'.group_teams
              groups == rr'.result
              N == Len(teams)
              g == IF N < 16 THEN 2 ELSE 4
              size(i) == Len(groups[i].teams)
          IN  /\ Len(groups) = g
              /\ \A i \in 1..g :
                    /\ groups[i].name = GROUP_WORD \o <<" ", <<"A", "B", "C", "D">>[i]>>
                    /\ size(i) = (N \div g) + (IF i <= N % g THEN 1 ELSE 0)
                    /\ \A j \in 1..g : size(i) - size(j) <= 1
              /\ Concat([i \in 1..g |-> groups[i].teams]) = teams
              /\ \A t \in Range(teams) :
                    Cardinality({i \in 1..g : t \in Range(groups[i].teams)}) = 1
              /\ rr.calls = 1 => rr'.result = rr.result ]_vars

\* seventeen teams, the list starting with team 4, have been grouped twice:
\* four groups, the first with five teams
C15_Witness ==
    /\ rr.calls = 2
    /\ Len(rr.group_teams) = 17 /\ rr.group_teams[1] = 4
    /\ Len(rr.result) = 4
    /\ rr.result[1].teams = <<4, 5, 6, 7, 8>>
    /\ Len(rr.result[4].teams) = 4

\* C1: called for a group of n >= 2 distinct teams that has no match yet,
\* generate_round_robin_for_group returns exactly n*(n-1)/2 matches, every
\* unordered pair of group teams is the pair of exactly one of them, and every
\* team plays in exactly n-1 of them.
C1_RoundRobinComplete ==
    rr.calls = 1 =>
        LET n == Len(rr.group_teams)
            pairs == ResultPairs(rr.result)
        IN  /\ Len(rr.result) = (n * (n - 1)) \div 2
            /\ \A a, b \in Range(rr.group_teams) :
                   a < b => Cardinality({i \in 1..Len(pairs) : pairs[i] = <<a, b>>}) = 1
            /\ \A t \in Range(rr.group_teams) : Appearances(rr.result, t) = n - 1

\* a first call for four teams, given in an order that is not ascending, with a
\* match of another group already stored, has returned its six matches
C1_Witness ==
    /\ rr.calls = 1
    /\ rr.group_teams = <<3, 1, 4, 2>>
    /\ Len(matches) = 7
    /\ Len(rr.result) = 6

----------------------------------------------------------------------------
(* The organiser's repair requests: fix, clear and reset                   *)
(****************************************************************************)
AdminConfigs == {<<"combination", 5>>}
MaxPlayed == 3

FixFixtures ==
    \E now \in Days :
       Respond("fix_fixtures", <<>>,
               Plain(fix_fixtures(format, combination_type, registrations, matches, now),
                     tstatus, FALSE, FALSE),
               teamStats)

ClearFixtures ==
    Respond("clear_fixtures", <<>>, Plain(clear_fixtures(matches), tstatus, FALSE, FALSE),
            teamStats)

ResetMatches ==
    LET r == reset_matches(format, matches, tstatus)
    IN  Respond("reset_matches", <<>>, Plain(r, r.tstatus, FALSE, FALSE),
                ResetStats(registrations, teamStats))

RemoveLastTeam ==
    LET r == remove_last_team(registrations)
    IN  /\ registrations' = r.registrations
        /\ last' = [op |-> "remove_last_team", status |-> r.status, round |-> <<>>,
                    called |-> FALSE, advanced |-> FALSE, knockout_generated |-> FALSE]
        /\ UNCHANGED <<format, combination_type, tstatus, matches, teamStats,
                       plan, pc, loc, rr>>

InitAdmin ==
    /\ plan = ""
    /\ \E c \in AdminConfigs : Fresh(c[1], c[2])

\* the matches a team's counters stand for
Played(t) == teamStats[t].wins + teamStats[t].draws + teamStats[t].losses

NextAdmin ==
    \/ GenerateFixtures
    \/ /\ \A t \in DOMAIN teamStats : Played(t) < MaxPlayed
       /\ \E o \in SimOutcomes : SimulateRoundWith(o, o)
    \/ Len(registrations) = Len(teamStats) /\ RemoveLastTeam
    \/ FixFixtures
    \/ ClearFixtures
    \/ ResetMatches

SpecAdmin == InitAdmin /\ [][NextAdmin]_vars

----------------------------------------------------------------------------
(* Round simulation while another connection locks the database            *)
(****************************************************************************)
MaxLocked == 4     \* a lock outlasts up to MaxLocked attempts on a match

\* how long the database stays locked for a match, and where the error is raised
LockOutcomes ==
    {NoLock} \cup {[fails |-> f, at |-> w] : f \in 1..MaxLocked, w \in {"write", "commit"}}

\* the indices of the matches that simulate_round is about to play
RoundMatches(fmt, ctype, ms) ==
    LET nx == get_next_round_matches(fmt, ctype, ms)
    IN  IF nx.matches = <<>> THEN <<>> ELSE SameRoundOnly(ms, nx.matches)

SimulateRoundLocked ==
    \E o1, o2 \in SimOutcomes, l1, l2 \in LockOutcomes :
       LET r == simulate_round_locked(format, combination_type, registrations,
                                      [matches |-> matches, tstatus |-> tstatus,
                                       teamStats |-> teamStats],
                                      <<o1, o2>>, <<l1, l2>>)
       IN  /\ matches' = r.matches
           /\ tstatus' = r.tstatus
           /\ teamStats' = r.teamStats
           /\ last' = [op |-> "simulate_round", status |-> r.status, round |-> r.round,
                       called |-> r.called, advanced |-> r.advanced,
                       knockout_generated |-> r.knockout_generated]
           /\ rr' = [NoRR EXCEPT
                       !.calls = 1,
                       !.result = [round_matches |->
                                      RoundMatches(format, combination_type, matches),
                                   locks |-> <<l1, l2>>,
                                   matches_simulated |-> r.matches_simulated,
                                   matches_failed |-> r.matches_failed,
                                   failed_matches |-> r.failed_matches,
                                   attempts |-> r.attempts]]
           /\ UNCHANGED <<format, combination_type, registrations, plan, pc, loc>>

InitLocks ==
    /\ plan = ""
    /\ Fresh("knockout", 4)

\* one call of simulate_round meets the locks, before or after calls that do not
NextLocks ==
    \/ GenerateFixtures
    \/ \E o \in SimOutcomes : SimulateRoundWith(o, o)
    \/ rr.calls = 0 /\ SimulateRoundLocked

SpecLocks == InitLocks /\ [][NextLocks]_vars

----------------------------------------------------------------------------
(* Round simulation when a Match.objects.create of the next round raises   *)
(****************************************************************************)
AdvanceSizes == {4, 8}

\* the creation loop of generate_next_knockout_round runs outside any
\* transaction: the rows created before the fail_at-th call stay stored, the
\* exception is caught and False is returned
FailingAt(ms, r, fail_at) ==
    IF Len(r.matches) - Len(ms) < fail_at THEN r
    ELSE [r EXCEPT !.matches = SubSeq(@, 1, Len(ms) + fail_at - 1),
                   !.advanced = FALSE]

SimulateRoundFailing ==
    \E o1, o2 \in SimOutcomes, fail_at \in 1..(Len(matches) + 1) :
       LET r == simulate_round(format, combination_type, registrations,
                               [matches |-> matches, tstatus |-> tstatus,
                                teamStats |-> teamStats], <<o1, o2>>)
           f == FailingAt(matches, r, fail_at)
       IN  /\ Len(r.matches) - Len(matches) >= fail_at
           /\ matches' = f.matches
           /\ tstatus' = f.tstatus
           /\ teamStats' = f.teamStats
           /\ last' = [op |-> "simulate_round", status |-> f.status, round |-> f.round,
                       called |-> f.called, advanced |-> f.advanced,
                       knockout_generated |-> f.knockout_generated]
           /\ rr' = [NoRR EXCEPT !.calls = 1,
                                 !.result = [fail_at |-> fail_at,
                                             num_matches |-> Len(r.matches) - Len(matches)]]
           /\ UNCHANGED <<format, combination_type, registrations, plan, pc, loc>>

InitAdvance ==
    /\ plan = ""
    /\ \E n \in AdvanceSizes : Fresh("knockout", n)

\* one creation raises, before or after rounds in which none does
NextAdvance ==
    \/ GenerateFixtures
    \/ SimulateRound
    \/ rr.calls = 0 /\ SimulateRoundFailing

SpecAdvance == InitAdvance /\ [][NextAdvance]_vars

----------------------------------------------------------------------------
(* Registration: two requests at a time, validation and creation apart     *)
(****************************************************************************)
team_max == 4

\* the team rows: a request that passed validation while another did adds one
\* registration beyond team_max
Entrants == 1..(team_max + 1)

\* RegistrationCreateSerializer.validate_tournament_id and validate, for a
\* manager whose email is not registered yet
ValidateRegistration(p) ==
    /\ pc[p] = "idle"
    /\ tstatus = "open"
    /\ Len(registrations) < team_max
    /\ pc' = [pc EXCEPT ![p] = "validated"]
    /\ last' = [NoLast EXCEPT !.op = "validate_registration", !.status = 200]
    /\ UNCHANGED <<format, combination_type, tstatus, registrations, matches,
                   teamStats, plan, loc, rr>>

\* RegistrationCreateSerializer.create: Team.objects.get_or_create makes the
\* next team row, the registration is created pending, and the save runs the
\* receiver
CreateRegistration(p) ==
    LET t == Len(registrations) + 1
        regs == Append(registrations, [team |-> t, status |-> "pending"])
    IN  /\ pc[p] = "validated"
        /\ pc' = [pc EXCEPT ![p] = "idle"]
        /\ registrations' = regs
        /\ matches' = maybe_generate_fixtures(regs, matches, team_max)
        /\ last' = [NoLast EXCEPT !.op = "create_registration", !.status = 201]
        /\ UNCHANGED <<format, combination_type, tstatus, teamStats, plan, loc, rr>>

\* RegistrationViewSet partial_update with status = 'cancelled'
CancelRegistration(i) ==
    /\ registrations[i].status # "cancelled"
    /\ registrations' = [registrations EXCEPT ![i].status = "cancelled"]
    /\ last' = [NoLast EXCEPT !.op = "cancel_registration", !.status = 200]
    /\ UNCHANGED <<format, combination_type, tstatus, matches, teamStats,
                   plan, pc, loc, rr>>

InitRegister ==
    /\ plan = ""
    /\ format \in {"knockout", "combination"}
    /\ combination_type = IF format = "combination" THEN "combinationB" ELSE "combinationA"
    /\ tstatus = "open"
    /\ registrations = <<>>
    /\ matches = <<>>
    /\ teamStats = [t \in Entrants |-> NoStats]
    /\ last = NoLast
    /\ pc = [p \in Procs |-> "idle"]
    /\ loc = [p \in Procs |-> NoLoc]
    /\ rr = NoRR

NextRegister ==
    \/ \E p \in Procs : ValidateRegistration(p)
    \/ \E p \in Procs : CreateRegistration(p)
    \/ \E i \in 1..Len(registrations) : CancelRegistration(i)
    \/ GenerateFixtures
    \/ ClearFixtures

SpecRegister == InitRegister /\ [][NextRegister]_vars

----------------------------------------------------------------------------
(* Winners of a stored round, read as generate_next_knockout_round does    *)
(****************************************************************************)
\* the penalty scores a stored match may carry
StoredPenalties == {None, 3, 4}

\* the k-th Semi-Final, between teams 2k-1 and 2k, in condition c with
\* penalties hp and ap
StoredSemiFinal(k, c, hp, ap) ==
    [NewMatch(k, 2 * k - 1, 2 * k, 0, SEMI_FINALS)
        EXCEPT !.status = c.status, !.home_score = c.hs, !.away_score = c.as,
               !.home_penalties = hp, !.away_penalties = ap]

\* the winner loop runs over the stored Semi-Finals; rr holds the list it builds
ExtractWinners ==
    /\ rr.calls < 1
    /\ rr' = [rr EXCEPT !.calls = @ + 1,
                        !.result = Winners(CompletedRoundMatches(matches, SEMI_FINALS))]
    /\ UNCHANGED <<format, combination_type, tstatus, registrations, matches,
                   teamStats, last, plan, pc, loc>>

InitWinners ==
    /\ plan = ""
    /\ format = "knockout"
    /\ combination_type = "combinationA"
    /\ tstatus = "open"
    /\ registrations = [i \in 1..4 |-> [team |-> i, status |-> "paid"]]
    /\ \E c1, c2 \in Conditions, p1, p2, p3, p4 \in StoredPenalties :
          matches = <<StoredSemiFinal(1, c1, p1, p2), StoredSemiFinal(2, c2, p3, p4)>>
    /\ teamStats = [t \in 1..4 |-> NoStats]
    /\ last = NoLast
    /\ pc = [p \in Procs |-> "idle"]
    /\ loc = [p \in Procs |-> NoLoc]
    /\ rr = NoRR

SpecWinners == InitWinners /\ [][ExtractWinners]_vars

----------------------------------------------------------------------------
(* Properties of the bracket progression                                   *)

\* the team a finished match sends on, None when the match decides nothing
Decided(m) ==
    IF m.home_score > m.away_score THEN m.home_team
    ELSE IF m.away_score > m.home_score THEN m.away_team
    ELSE IF m.home_penalties = None \/ m.away_penalties = None THEN None
    ELSE IF m.home_penalties > m.away_penalties THEN m.home_team
    ELSE IF m.away_penalties > m.home_penalties THEN m.away_team
    ELSE None

\* the matches of ms that carry the label, in the order they are read
Labelled(ms, label) == SelectSeq(ms, LAMBDA m : m.pitch = label)

\* the teams the matches send on, in the order the matches are read
Advancing(round_matches) ==
    LET decided == SelectSeq(round_matches, LAMBDA m : Decided(m) # None)
    IN  [i \in 1..Len(decided) |-> Decided(decided[i])]

\* the name of the round that w winners play
RoundNameFor(w) ==
    CASE w = 2 -> FINAL
      [] w = 4 -> SEMI_FINALS
      [] w = 8 -> QUARTER_FINALS
      [] w = 16 -> ROUND_OF_16
      [] OTHER -> get_round_name(w)

\* the rows a request has found in the table when it calls the advancement:
\* the rows before the request, with the scored match as the request left it
RowsAtCall == SubSeq(matches', 1, Len(matches))

\* C2: when a score entry calls generate_next_knockout_round for a round whose
\* matches are all finished and send on an even number w >= 2 of winners, and
\* no match carries the name of the round for w, the request appends exactly
\* w/2 scheduled matches with that name, winners (1,2), (3,4), ... paired in
\* the order their matches are read, dated one day after the latest kickoff of
\* the completed round.
C2_NextRoundCreated ==
    [][ (last'.op = "set_score" /\ last'.called) =>
          LET round == Labelled(RowsAtCall, last'.round)
              w == Advancing(round)
              name == RoundNameFor(Len(w))
              date == MaxOf({round[i].kickoff_at : i \in 1..Len(round)}) + 1
              created == SubSeq(matches', Len(matches) + 1, Len(matches'))
          IN  ( /\ \A i \in 1..Len(round) : round[i].status = "finished"
                /\ Len(w) >= 2 /\ Len(w) % 2 = 0
                /\ Labelled(RowsAtCall, name) = <<>> )
              => /\ Len(created) = Len(w) \div 2
                 /\ \A i \in 1..Len(created) :
                       /\ created[i].pitch = name
                       /\ created[i].status = "scheduled"
                       /\ created[i].home_team = w[2 * i - 1]
                       /\ created[i].away_team = w[2 * i]
                       /\ created[i].kickoff_at = date
                 /\ last'.advanced ]_vars

\* the Semi-Finals ended 3-1 and 2-2 with penalties 5-4, and the one Final
\* there is pairs the two home teams a day later
C2_Witness ==
    LET sf == Labelled(matches, SEMI_FINALS)
        fin == Labelled(matches, FINAL)
    IN  /\ Len(sf) = 2 /\ Len(fin) = 1
        /\ sf[1].home_score = 3 /\ sf[1].away_score = 1
        /\ sf[2].home_score = 2 /\ sf[2].away_score = 2
        /\ sf[2].home_penalties = 5 /\ sf[2].away_penalties = 4
        /\ fin[1].home_team = sf[1].home_team
        /\ fin[1].away_team = sf[2].home_team
        /\ fin[1].kickoff_at = sf[2].kickoff_at + 1
        /\ fin[1].status = "scheduled"
        /\ last.op = "set_score" /\ last.advanced

\* the k with 2^k = n, for a power of two n
RECURSIVE Log2(_)
Log2(n) == IF n <= 1 THEN 0 ELSE 1 + Log2(n \div 2)

\* C7: a knockout tournament of 2^k teams whose matches are all finished with
\* decisive results, round after round, holds 2^k - 1 matches in k distinctly
\* labelled rounds, the last of which is the single Final.
C7_BracketSize ==
    ( /\ format = "knockout"
      /\ Len(matches) > 0
      /\ \A i \in 1..Len(matches) :
            matches[i].status = "finished" /\ Decided(matches[i]) # None )
    => /\ Len(matches) = Len(registrations) - 1
       /\ Cardinality({matches[i].pitch : i \in 1..Len(matches)})
             = Log2(Len(registrations))
       /\ Len(Labelled(matches, FINAL)) = 1
       /\ matches[Len(matches)].pitch = FINAL

\* C5: a call of generate_next_knockout_round for round r creates matches only
\* when every match of round r is finished and the round sends on at least 2
\* winners; with a match of the round still scheduled or live, or with fewer
\* than 2 winners, it creates nothing and returns False.
C5_OnlyAfterCompleteRound ==
    [][ last'.called =>
          LET round == Labelled(RowsAtCall, last'.round)
              complete == \A i \in 1..Len(round) : round[i].status = "finished"
          IN  (~complete \/ Len(Advancing(round)) < 2)
              => ~last'.advanced /\ Len(matches') = Len(matches) ]_vars

\* a score entry has finished the second of the four matches of the first
\* round while the third is live and the fourth scheduled: two winners stand,
\* the advancement was called and has created nothing
C5_Witness ==
    LET round == Labelled(matches, ROUND_1)
    IN  /\ last.op = "set_score" /\ last.called /\ ~last.advanced
        /\ Len(round) = 4 /\ Len(matches) = 4
        /\ Decided(round[1]) # None /\ round[1].status = "finished"
        /\ Decided(round[2]) # None /\ round[2].status = "finished"
        /\ round[3].status = "live" /\ round[4].status = "scheduled"

\* C8: the step that finishes the match labelled Final with a decisive result,
\* by score entry, by end-match or by simulation, leaves the tournament
\* completed, and a completed tournament stays completed.
C8_FinalCompletes ==
    [][ /\ \A i \in 1..Len(matches) :
              ( /\ matches[i].pitch = FINAL
                /\ matches[i].status # "finished"
                /\ matches'[i].status = "finished"
                /\ Decided(matches'[i]) # None )
              => tstatus' = "completed"
        /\ tstatus = "completed" => tstatus' = "completed" ]_vars

\* a finished match with level scores whose penalties are absent or equal
Undecided(m) == m.status = "finished" /\ Decided(m) = None

\* the rows a request has appended
Created == SubSeq(matches', Len(matches) + 1, Len(matches'))

\* C4: a call of generate_next_knockout_round for a finished round whose next
\* round has been created before creates no match and returns False, and the
\* request leaves every row as it was but the one it scores; and matches
\* labelled Semi-Finals or Quarter-Finals do not count as an existing Final:
\* with no match labelled Final, the call for two decided Semi-Finals creates it.
C4_SecondCallCreatesNothing ==
    [][ (last'.op = "set_score" /\ last'.called) =>
          LET round == Labelled(RowsAtCall, last'.round)
              w == Advancing(round)
              name == RoundNameFor(Len(w))
              complete == \A i \in 1..Len(round) : round[i].status = "finished"
          IN  /\ (complete /\ Len(w) >= 2 /\ Labelled(matches, name) # <<>>)
                 => /\ ~last'.advanced
                    /\ Len(matches') = Len(matches)
                    /\ \A i \in 1..Len(matches) :
                          matches[i].pitch # last'.round => matches'[i] = matches[i]
              /\ ( /\ complete /\ Len(w) = 2
                   /\ last'.round \in {SEMI_FINALS, QUARTER_FINALS}
                   /\ Labelled(matches, FINAL) = <<>> )
                 => /\ last'.advanced
                    /\ Len(Created) = 1
                    /\ Created[1].pitch = FINAL ]_vars

\* the result of a Semi-Final has been entered again after the Final was
\* created: the advancement was called, returned False, and there is one Final
C4_Witness ==
    LET sf == Labelled(matches, SEMI_FINALS)
    IN  /\ last.op = "set_score" /\ last.called /\ ~last.advanced
        /\ last.round = SEMI_FINALS
        /\ Len(sf) = 2 /\ Decided(sf[1]) # None /\ Decided(sf[2]) # None
        /\ sf[1].status = "finished" /\ sf[2].status = "finished"
        /\ Len(Labelled(matches, FINAL)) = 1
        /\ matches[Len(matches)].status = "scheduled"

\* C6: a call of the advancement that finds exactly two Semi-Finals, one of
\* them finished level with penalties absent or equal, creates nothing; while
\* that Semi-Final stays undecided no request creates a Final; and the score
\* entry that decides it, the other Semi-Final being decided, creates the Final
\* between the two winners.
C6_DrawBlocksFinal ==
    [][ LET before == Labelled(matches, SEMI_FINALS)
            after == Labelled(matches', SEMI_FINALS)
        IN  (Len(after) = 2 /\ Labelled(matches, FINAL) = <<>>) =>
              /\ (\E i \in 1..2 : Undecided(after[i]))
                 => /\ Labelled(matches', FINAL) = <<>>
                    /\ last'.called => ~last'.advanced
              /\ ( /\ Len(before) = 2
                   /\ \E i \in 1..2 : Undecided(before[i])
                   /\ \A i \in 1..2 : after[i].status = "finished"
                                         /\ Decided(after[i]) # None
                   /\ last'.op = "set_score" )
                 => /\ Len(Labelled(matches', FINAL)) = 1
                    /\ Created = Labelled(matches', FINAL)
                    /\ Created[1].home_team = Decided(after[1])
                    /\ Created[1].away_team = Decided(after[2])
                    /\ last'.advanced ]_vars

\* the second Semi-Final was ended level without penalties, no Final came, and
\* the corrected result 2-2 with penalties 4-5 has just created the Final
C6_Witness ==
    LET sf == Labelled(matches, SEMI_FINALS)
        fin == Labelled(matches, FINAL)
    IN  /\ plan = "draw"
        /\ Len(sf) = 2 /\ Len(fin) = 1
        /\ sf[2].home_score = 2 /\ sf[2].away_score = 2
        /\ sf[2].home_penalties = 4 /\ sf[2].away_penalties = 5
        /\ fin[1].home_team = sf[1].home_team
        /\ fin[1].away_team = sf[2].away_team
        /\ last.op = "set_score" /\ last.round = SEMI_FINALS /\ last.advanced

\* C10: when the knockout stage is generated from the groups, the groups taken
\* in the order of their names two by two, each pair (G1, G2) gets the two
\* matches G1-first v G2-second and G2-first v G1-second, first and second
\* being the top two of the group's standings; the matches carry the round name
\* for the number of qualifiers: 4 groups give 4 Quarter-Finals A1 v B2,
\* B1 v A2, C1 v D2, D1 v C2, and 2 groups give 2 Semi-Finals.
C10_Crossover ==
    [][ last'.knockout_generated =>
          LET groups == generate_groups(RegisteredTeams(registrations))
              tables == [i \in 1..Len(groups) |->
                           calculate_group_standings(groups[i].teams, RowsAtCall,
                                                     groups[i].name)]
              name == RoundNameFor(2 * Len(groups))
          IN  /\ Len(Created) = 2 * (Len(groups) \div 2)
              /\ Len(groups) = 4 => Len(Created) = 4 /\ name = QUARTER_FINALS
              /\ Len(groups) = 2 => name = SEMI_FINALS
              /\ \A i \in 1..Len(Created) :
                    Created[i].pitch = name /\ Created[i].status = "scheduled"
              /\ \A k \in 1..(Len(groups) \div 2) :
                    /\ Created[2 * k - 1].home_team = tables[2 * k - 1][1].team
                    /\ Created[2 * k - 1].away_team = tables[2 * k][2].team
                    /\ Created[2 * k].home_team = tables[2 * k][1].team
                    /\ Created[2 * k].away_team = tables[2 * k - 1][2].team ]_vars

\* the last group match of a tournament of 16 teams in 4 groups has been
\* scored and the 4 Quarter-Finals stand behind the 24 group matches
C10_Witness ==
    /\ format = "combination" /\ Len(registrations) = 16
    /\ last.op = "set_score" /\ last.knockout_generated
    /\ Len(matches) = 28
    /\ Len(Labelled(matches, QUARTER_FINALS)) = 4
    /\ \A i \in 1..24 : matches[i].status = "finished"

\* C3: once two score entries, served at the same time, have finished the last
\* two matches of a knockout round that sends on w winners, the matches that
\* carry the name of the next round number w/2: one Final after two
\* Semi-Finals, never twice as many.
C3_CreatedOnce ==
    (\A p \in Procs : pc[p] = "idle") =>
        \A i \in 1..Len(matches) :
           LET round == Labelled(matches, matches[i].pitch)
               w == Len(Advancing(round))
           IN  ( /\ \A j \in 1..Len(round) : round[j].status = "finished"
                 /\ w >= 2 /\ w % 2 = 0
                 /\ RoundNameFor(w) # matches[i].pitch )
               => Len(Labelled(matches, RoundNameFor(w))) = w \div 2

\* C9: a completed tournament has no scheduled or live match, whatever the
\* order in which the steps of concurrent score entries are served.
C9_CompletedMeansAllPlayed ==
    tstatus = "completed" =>
        \A i \in 1..Len(matches) : matches[i].status = "finished"

\* C11: in a combinationB tournament a knockout match exists only when every
\* match whose pitch contains 'Group' is finished: no score entry, round
\* simulation or generate-knockouts action creates one while a group match is
\* scheduled or live.
C11_KnockoutAfterGroups ==
    (format = "combination" /\ combination_type = "combinationB"
       /\ Len(KnockoutMatches(matches)) > 0)
    => Len(Unfinished(GroupMatches(matches))) = 0

\* C12: a call of generate_knockout_stage_from_groups that finds a non-group
\* match creates nothing and returns False; a call that finds the group stage
\* complete and no non-group match creates the first knockout round, two
\* matches per pair of groups, so that two calls in sequence create it once.
C12_StageCreatedOnce ==
    [][ last'.op = "generate_knockout_stage_from_groups" =>
          /\ Len(KnockoutMatches(matches)) > 0
                => matches' = matches /\ ~last'.knockout_generated
          /\ ( /\ Len(KnockoutMatches(matches)) = 0
               /\ Len(GroupMatches(matches)) > 0
               /\ Len(Unfinished(GroupMatches(matches))) = 0 )
                => /\ last'.knockout_generated
                   /\ Len(Created)
                        = 2 * (Len(generate_groups(RegisteredTeams(registrations)))
                                 \div 2)
                   /\ \A i \in 1..Len(Created) :
                         ~IContains(Created[i].pitch, GROUP_WORD) ]_vars

\* the group stage is complete, its two Semi-Finals stand as created, and a
\* further call of the stage generation has returned False
C12_Witness ==
    /\ last.op = "generate_knockout_stage_from_groups" /\ ~last.knockout_generated
    /\ Len(GroupMatches(matches)) = 2
    /\ Len(Unfinished(GroupMatches(matches))) = 0
    /\ Len(KnockoutMatches(matches)) = 2
    /\ Len(Labelled(matches, SEMI_FINALS)) = 2
    /\ \A i \in 3..4 : matches[i].status = "scheduled"

\* C13: once two score entries, served at the same time, have finished the last
\* two group matches of a combinationB tournament, the first knockout round
\* stands exactly once: two matches per pair of groups, none of them twice.
C13_StageOnceUnderRace ==
    ( /\ format = "combination" /\ combination_type = "combinationB"
      /\ \A p \in Procs : pc[p] = "idle"
      /\ Len(GroupMatches(matches)) > 0
      /\ Len(Unfinished(GroupMatches(matches))) = 0 )
    => LET groups == generate_groups(RegisteredTeams(registrations))
           first == Labelled(matches, RoundNameFor(2 * Len(groups)))
       IN  /\ Len(first) = 2 * (Len(groups) \div 2)
           /\ \A i, j \in 1..Len(first) :
                 (i # j) => <<first[i].home_team, first[i].away_team>>
                              # <<first[j].home_team, first[j].away_team>>

\* C14: a second call of generate_round_robin_for_group, made after everything
\* the first call returned was saved, returns the n*(n-1)/2 stored matches of
\* the group and no other; saving what it returns leaves the table unchanged.
C14_SecondCallAddsNothing ==
    [][ (rr.calls = 1 /\ rr'.calls = 2) =>
          LET n == Len(rr.group_teams)
              group == SelectSeq(matches,
                                 LAMBDA m : StartsWith(m.pitch, rr.group_name))
          IN  /\ matches' = matches
              /\ Len(rr'.result) = (n * (n - 1)) \div 2
              /\ {rr'.result[i].match : i \in 1..Len(rr'.result)} = Range(group) ]_vars

\* the second call for four teams has returned the six stored matches
C14_Witness ==
    /\ rr.calls = 2
    /\ rr.group_teams = <<3, 1, 4, 2>>
    /\ Len(matches) = 7
    /\ Len(rr.result) = 6
    /\ \A i \in 1..6 : rr.result[i].match.id # 0

\* the stored group matches pair teams of one group of the grouping, under
\* that group's name
StoredUnder(groups, ms) ==
    \A i \in 1..Len(GroupMatches(ms)) :
        \E g \in 1..Len(groups) :
            /\ StartsWith(GroupMatches(ms)[i].pitch, groups[g].name)
            /\ {GroupMatches(ms)[i].home_team, GroupMatches(ms)[i].away_team}
                  \subseteq Range(groups[g].teams)

\* C16: once the group fixtures of a combinationB tournament are stored, the
\* grouping recomputed from the registrations (fixture generation and the
\* group-to-knockout transition) and the grouping recomputed from the team
\* table (standings, validation and fixture repair) place every team in the
\* same named group, the group its stored matches are played in.
C16_SameGrouping ==
    Len(GroupMatches(matches)) > 0 =>
        /\ StoredUnder(generate_groups(RegisteredTeams(registrations)), matches)
        /\ StoredUnder(generate_groups(TournamentTeams(registrations)), matches)
        /\ \A g \in 1..Len(generate_groups(RegisteredTeams(registrations))) :
              Range(generate_groups(RegisteredTeams(registrations))[g].teams)
                = Range(generate_groups(TournamentTeams(registrations))[g].teams)

\* the finished matches under the group's name that team t plays in
Counted(t) ==
    {i \in 1..Len(matches) :
        /\ matches[i].status = "finished"
        /\ Len(matches[i].pitch) >= Len(rr.group_name)
        /\ SubSeq(matches[i].pitch, 1, Len(rr.group_name)) = rr.group_name
        /\ t \in {matches[i].home_team, matches[i].away_team}}

\* the goals of team t and of its opponent in match i
Own(i, t) ==
    IF matches[i].home_team = t THEN matches[i].home_score ELSE matches[i].away_score

Opp(i, t) ==
    IF matches[i].home_team = t THEN matches[i].away_score ELSE matches[i].home_score

\* the results A 2-1 B, B 0-0 C, A 1-1 C, all finished, for the list A, B, C
ExampleResults ==
    /\ rr.group_teams = <<1, 2, 3>>
    /\ \A i \in 1..3 : matches[i].status = "finished"
    /\ <<matches[1].home_score, matches[1].away_score>> = <<2, 1>>
    /\ <<matches[2].home_score, matches[2].away_score>> = <<0, 0>>
    /\ <<matches[3].home_score, matches[3].away_score>> = <<1, 1>>

\* C17: calculate_group_standings returns one row per listed team whose wins,
\* draws, losses, goals_for and goals_against are those of the finished
\* matches under the group's pitch prefix that the team plays in, with
\* points = 3*wins + draws, goal_difference = goals_for - goals_against and
\* wins + draws + losses = the number of these matches; for A 2-1 B, B 0-0 C,
\* A 1-1 C the rows are A (1 win, 1 draw, 3-2, 4 points), C (2 draws, 1-1,
\* 2 points), B (1 draw, 1 loss, 1-2, 1 point).
C17_StandingsArithmetic ==
    rr.calls = 1 =>
        /\ Len(rr.result) = Len(rr.group_teams)
        /\ {rr.result[k].team : k \in 1..Len(rr.result)} = Range(rr.group_teams)
        /\ \A k \in 1..Len(rr.result) :
              /\ rr.result[k].wins
                   = Cardinality({i \in Counted(rr.result[k].team) :
                        Own(i, rr.result[k].team) > Opp(i, rr.result[k].team)})
              /\ rr.result[k].draws
                   = Cardinality({i \in Counted(rr.result[k].team) :
                        Own(i, rr.result[k].team) = Opp(i, rr.result[k].team)})
              /\ rr.result[k].losses
                   = Cardinality({i \in Counted(rr.result[k].team) :
                        Own(i, rr.result[k].team) < Opp(i, rr.result[k].team)})
              /\ rr.result[k].goals_for
                   = SumSeq([i \in 1..Len(matches) |->
                        IF i \in Counted(rr.result[k].team)
                        THEN Own(i, rr.result[k].team) ELSE 0])
              /\ rr.result[k].goals_against
                   = SumSeq([i \in 1..Len(matches) |->
                        IF i \in Counted(rr.result[k].team)
                        THEN Opp(i, rr.result[k].team) ELSE 0])
              /\ rr.result[k].points = 3 * rr.result[k].wins + rr.result[k].draws
              /\ rr.result[k].goal_difference
                   = rr.result[k].goals_for - rr.result[k].goals_against
              /\ rr.result[k].wins + rr.result[k].draws + rr.result[k].losses
                   = Cardinality(Counted(rr.result[k].team))
        /\ ExampleResults =>
              [k \in 1..3 |->
                  <<rr.result[k].team, rr.result[k].wins, rr.result[k].draws,
                    rr.result[k].losses, rr.result[k].goals_for,
                    rr.result[k].goals_against, rr.result[k].points>>]
                = << <<1, 1, 1, 0, 3, 2, 4>>, <<3, 0, 2, 0, 1, 1, 2>>,
                     <<2, 0, 1, 1, 1, 2, 1>> >>

\* the rows of the example have been returned while a finished match of the
\* other group is stored
C17_Witness ==
    /\ rr.calls = 1
    /\ ExampleResults
    /\ Len(matches) = 4
    /\ rr.result[1].points = 4

\* the sort key of a standings row, and the place of its team in the input
SortKey(row) == <<row.points, row.goal_difference, row.goals_for>>

InputPlace(row) == CHOOSE i \in 1..Len(rr.group_teams) : rr.group_teams[i] = row.team

\* key a comes before key b in descending order
Before(a, b) ==
    \/ a[1] > b[1]
    \/ a[1] = b[1] /\ a[2] > b[2]
    \/ a[1] = b[1] /\ a[2] = b[2] /\ a[3] > b[3]

\* C18: the rows returned by calculate_group_standings are in descending
\* order of (points, goal_difference, goals_for), and two rows equal on all
\* three keys stand in the order their teams have in the input list.
C18_SortedAndStable ==
    rr.calls = 1 =>
        \A k, l \in 1..Len(rr.result) :
            k < l =>
                \/ Before(SortKey(rr.result[k]), SortKey(rr.result[l]))
                \/ /\ SortKey(rr.result[k]) = SortKey(rr.result[l])
                   /\ InputPlace(rr.result[k]) < InputPlace(rr.result[l])

\* for the list 3, 1, 2 and only 1 v 3 finished, level with goals, teams 3 and
\* 1 are equal on every key and stand in input order ahead of team 2
C18_Witness ==
    /\ rr.calls = 1
    /\ rr.group_teams = <<3, 1, 2>>
    /\ [k \in 1..3 |-> rr.result[k].team] = <<3, 1, 2>>
    /\ SortKey(rr.result[1]) = SortKey(rr.result[2])
    /\ rr.result[1].goals_for > 0
    /\ Before(SortKey(rr.result[2]), SortKey(rr.result[3]))

\* the stored matches under a group's name that reference team t
Referencing(name, t) ==
    {i \in 1..Len(matches) :
        /\ StartsWith(matches[i].pitch, name)
        /\ t \in {matches[i].home_team, matches[i].away_team}}

\* C19: while group matches of a combinationB tournament are still
\* scheduled, the standings response reports for every team played = the
\* number of stored matches of its group, scheduled or finished, that
\* reference the team, so the teams of a complete group show one total.
C19_PlayedCountsAllFixtures ==
    ( /\ rr.calls = 1
      /\ format = "combination" /\ combination_type = "combinationB"
      /\ Len(Unfinished(GroupMatches(matches))) > 0 )
    => \A g \in 1..Len(rr.result) :
          \A k, l \in 1..Len(rr.result[g].rows) :
             /\ rr.result[g].rows[k].played
                  = Cardinality(Referencing(rr.result[g].name,
                                            rr.result[g].rows[k].team))
             /\ rr.result[g].rows[k].played = rr.result[g].rows[l].played

\* the team counts a bracket can have
BracketSizes == {1, 2, 4, 8, 16, 32, 64}

Plays(t) ==
    Cardinality({i \in 1..Len(rr.result) :
                    t \in {rr.result[i].home_team, rr.result[i].away_team}})

\* C21: for a list of n = 2^k teams (k >= 1) generate_knockout_fixtures
\* returns n/2 scheduled matches labelled 'Round 1' and dated on the start
\* date, the i-th of them between the teams at places 2i-1 and 2i of the
\* list counted from 1, so that every team is in exactly one match.
C21_FirstRoundPairs ==
    ( /\ last.op = "generate_knockout_fixtures"
      /\ Len(rr.group_teams) \in BracketSizes \ {1} )
    => /\ last.status = 200
       /\ 2 * Len(rr.result) = Len(rr.group_teams)
       /\ \A i \in 1..Len(rr.result) :
             /\ rr.result[i].status = "scheduled"
             /\ rr.result[i].pitch = ROUND_1
             /\ rr.result[i].kickoff_at = rr.start_round
             /\ rr.result[i].home_team = rr.group_teams[2 * i - 1]
             /\ rr.result[i].away_team = rr.group_teams[2 * i]
       /\ \A t \in Range(rr.group_teams) : Plays(t) = 1

\* the 8 first-round matches of the list 4, 5, .., 16, 1, 2, 3 from day 1
C21_Witness ==
    /\ last.op = "generate_knockout_fixtures"
    /\ Len(rr.group_teams) = 16
    /\ rr.group_teams[1] = 4
    /\ rr.start_round = 1
    /\ Len(rr.result) = 8

\* the rows of rr.result between teams a and b, either way round
Meetings(a, b) ==
    {i \in 1..Len(rr.result) :
        {rr.result[i].home_team, rr.result[i].away_team} = {a, b}}

\* C22: for a league of n >= 2 teams generate_league_fixtures returns
\* n*(n-1)/2 matches in which every unordered pair of teams meets exactly
\* once.
C22_LeagueEveryPairOnce ==
    ( /\ last.op = "generate_league_fixtures"
      /\ Len(rr.group_teams) >= 2 )
    => /\ 2 * Len(rr.result) = Len(rr.group_teams) * (Len(rr.group_teams) - 1)
       /\ \A a, b \in Range(rr.group_teams) :
             a # b => Cardinality(Meetings(a, b)) = 1

\* the rows of rr.result dated on day d in which team t plays
OnDay(d, t) ==
    {i \in 1..Len(rr.result) :
        /\ rr.result[i].kickoff_at = d
        /\ t \in {rr.result[i].home_team, rr.result[i].away_team}}

\* C23: for an even number n >= 2 of teams the schedule of
\* generate_league_fixtures has exactly n-1 rounds, dated start_date + r days
\* for r = 0 .. n-2, and in each round every team plays exactly one match.
C23_LeagueRounds ==
    ( /\ last.op = "generate_league_fixtures"
      /\ Len(rr.group_teams) >= 2
      /\ Len(rr.group_teams) % 2 = 0 )
    => /\ {rr.result[i].kickoff_at : i \in 1..Len(rr.result)}
             = {rr.start_round + r : r \in 0..(Len(rr.group_teams) - 2)}
       /\ \A r \in 0..(Len(rr.group_teams) - 2) :
             \A t \in Range(rr.group_teams) :
                Cardinality(OnDay(rr.start_round + r, t)) = 1

\* the schedule of the list 3, 4, 5, 6, 1, 2 from day 1: 5 rounds of 3 matches
C23_Witness ==
    /\ last.op = "generate_league_fixtures"
    /\ rr.group_teams = <<3, 4, 5, 6, 1, 2>>
    /\ rr.start_round = 1
    /\ Len(rr.result) = 15
    /\ Cardinality(OnDay(5, 1)) = 1

\* C24: in the schedule returned by generate_round_robin_for_group for a
\* group of n >= 2 teams no team is in two matches of the same round, the
\* matches of a round sharing the 'Round N' label and the date.
C24_OncePerRound ==
    rr.calls >= 1 =>
        \A i, j \in 1..Len(rr.result) :
            ( /\ i # j
              /\ \/ rr.result[i].round = rr.result[j].round
                 \/ rr.result[i].match.pitch = rr.result[j].match.pitch
                 \/ rr.result[i].match.kickoff_at = rr.result[j].match.kickoff_at )
            => {rr.result[i].match.home_team, rr.result[i].match.away_team}
                 \cap {rr.result[j].match.home_team, rr.result[j].match.away_team} = {}

\* the stored matches of the group between teams a and b of the list
Pairing(a, b) ==
    {i \in 1..Len(matches) :
        /\ StartsWith(matches[i].pitch, rr.group_name)
        /\ {matches[i].home_team, matches[i].away_team} = {a, b}}

\* the unordered pairs of the list stored c times, for c in the set counts
PairsStored(counts) ==
    {{a, b} : a, b \in Range(rr.group_teams)} \cap
    {{rr.group_teams[i], rr.group_teams[j]} : <<i, j>> \in
        {<<i, j>> \in (1..Len(rr.group_teams)) \X (1..Len(rr.group_teams)) :
            /\ i < j
            /\ Cardinality(Pairing(rr.group_teams[i], rr.group_teams[j])) \in counts}}

\* C25: validate_round_robin_completeness reports valid exactly when the
\* matches of the group (pitch prefixed by its name, both teams in the list)
\* hold every unordered pair of the list exactly once; a total other than
\* n*(n-1)/2, a missing pair, a duplicated pair or a team with other than n-1
\* matches makes it invalid, and missing_pairs and duplicate_pairs hold exactly
\* the missing and the duplicated pairs.
C25_ValidIffComplete ==
    rr.calls = 1 =>
        /\ rr.result.valid <=>
              PairsStored({1}) = PairsStored(0..Len(matches))
        /\ rr.result.actual_matches # rr.result.expected_matches => ~rr.result.valid
        /\ rr.result.expected_matches
              = (Len(rr.group_teams) * (Len(rr.group_teams) - 1)) \div 2
        /\ rr.result.actual_matches
              = Cardinality(UNION {Pairing(a, b) : a, b \in Range(rr.group_teams)})
        /\ ( \E t \in Range(rr.group_teams) :
                 Cardinality(UNION {Pairing(t, b) : b \in Range(rr.group_teams)})
                    # Len(rr.group_teams) - 1 ) => ~rr.result.valid
        /\ {{p[1], p[2]} : p \in Range(rr.result.missing_pairs)} = PairsStored({0})
        /\ {{p[1], p[2]} : p \in Range(rr.result.duplicate_pairs)}
              = PairsStored(2..Len(matches))

\* the three pairs of the list 2, 3, 1 are stored once each, one of them away
\* from home, beside a match with a team outside the list: the report is valid
C25_Witness ==
    /\ rr.calls = 1
    /\ rr.group_teams = <<2, 3, 1>>
    /\ Len(matches) = 4
    /\ \E i \in 1..4 : matches[i].home_team = 2 /\ matches[i].away_team = 1
    /\ \E i \in 1..4 : matches[i].away_team = 4
    /\ rr.result.valid

----------------------------------------------------------------------------
(* Properties of the repair requests                                       *)
(****************************************************************************)
\* the rows stored under a group's name
Under(name, ms) == SelectSeq(ms, LAMBDA m : StartsWith(m.pitch, name))

\* the rows stored under no group's name
OutsideGroups(ms) == SelectSeq(ms, LAMBDA m : ~StartsWith(m.pitch, GROUP_WORD))

\* C26: after a fix-fixtures request is answered with 200, every group of the
\* tournament validates as a complete round robin; a group that validated
\* before the request keeps its rows exactly, a group that did not keeps none
\* of its old rows, and the rows of the knockout stage are exactly as before.
C26_RepairRestoresGroups ==
    [][ (last'.op = "fix_fixtures" /\ last'.status = 200) =>
          LET groups == generate_groups(TournamentTeams(registrations))
          IN  /\ \A g \in 1..Len(groups) :
                    LET before == validate_round_robin_completeness(
                                      groups[g].teams, matches, groups[g].name)
                        after == validate_round_robin_completeness(
                                      groups[g].teams, matches', groups[g].name)
                    IN  /\ after.valid
                        /\ before.valid =>
                              Under(groups[g].name, matches')
                                 = Under(groups[g].name, matches)
                        /\ ~before.valid =>
                              /\ Len(Under(groups[g].name, matches'))
                                    = after.expected_matches
                              /\ \A i \in 1..Len(matches') :
                                    StartsWith(matches'[i].pitch, groups[g].name) =>
                                       /\ matches'[i].status = "scheduled"
                                       /\ matches'[i].home_score = 0
                                       /\ matches'[i].away_score = 0
              /\ OutsideGroups(matches') = OutsideGroups(matches) ]_vars

\* the last team of five has been removed and the fixtures fixed: Group B was
\* regenerated as the one match 3 v 4 while the played matches of Group A and
\* a semi-final are still stored
C26_Witness ==
    /\ last.op = "fix_fixtures" /\ last.status = 200
    /\ Len(registrations) = 4
    /\ \E i \in 1..Len(matches) :
          /\ StartsWith(matches[i].pitch, GroupName(2))
          /\ matches[i].home_team = 3 /\ matches[i].away_team = 4
          /\ matches[i].status = "scheduled"
    /\ \E i \in 1..Len(matches) :
          /\ StartsWith(matches[i].pitch, GroupName(1))
          /\ matches[i].status = "finished"
    /\ OutsideGroups(matches) # <<>>


\* the finished matches in which team t takes part
FinishedOf(t) ==
    {i \in 1..Len(matches) :
        /\ matches[i].status = "finished"
        /\ t \in {matches[i].home_team, matches[i].away_team}}

\* goals scored by team t, and by its opponent, in match i
GoalsFor(i, t) ==
    IF matches[i].home_team = t THEN matches[i].home_score ELSE matches[i].away_score

GoalsAgainst(i, t) ==
    IF matches[i].home_team = t THEN matches[i].away_score ELSE matches[i].home_score

RECURSIVE Total(_, _)
Total(S, f) ==
    IF S = {} THEN 0
    ELSE LET i == CHOOSE x \in S : TRUE IN f[i] + Total(S \ {i}, f)

\* C27: each team's wins + draws + losses is the number of finished matches
\* it took part in, and its wins, draws, losses and goals are the totals of
\* the stored results of those matches.
C27_CountersMatchFinished ==
    \A t \in DOMAIN teamStats :
        LET won == {i \in FinishedOf(t) : GoalsFor(i, t) > GoalsAgainst(i, t)}
            lost == {i \in FinishedOf(t) : GoalsFor(i, t) < GoalsAgainst(i, t)}
            For == [i \in FinishedOf(t) |-> GoalsFor(i, t)]
            Against == [i \in FinishedOf(t) |-> GoalsAgainst(i, t)]
        IN  /\ Played(t) = Cardinality(FinishedOf(t))
            /\ teamStats[t].wins = Cardinality(won)
            /\ teamStats[t].losses = Cardinality(lost)
            /\ teamStats[t].draws = Cardinality(FinishedOf(t) \ (won \cup lost))
            /\ teamStats[t].goals_for = Total(FinishedOf(t), For)
            /\ teamStats[t].goals_against = Total(FinishedOf(t), Against)

\* the stored matches of an earlier state that are stored no more
Deleted(before, after) ==
    {i \in 1..Len(before) : \A j \in 1..Len(after) : after[j].id # before[i].id}

\* C28: a request that deletes matches is a reset, fix or clear request, and
\* after it each team of a deleted match has wins + draws + losses equal to
\* the number of finished matches it still takes part in.
C28_DeletionResetsCounters ==
    [][ Deleted(matches, matches') # {} =>
          /\ last'.op \in {"reset_matches", "fix_fixtures", "clear_fixtures"}
          /\ \A i \in Deleted(matches, matches') :
                \A t \in {matches[i].home_team, matches[i].away_team} :
                    Played(t)' = Cardinality(FinishedOf(t))' ]_vars

\* the attempts that a match locked for the first f of them needs
AttemptsNeeded(f) == IF f + 1 < max_retries THEN f + 1 ELSE max_retries

\* C29: in a call of simulate_round every match of the round is attempted,
\* one that keeps meeting a locked database at most 3 times; the matches
\* that failed all their attempts are reported in failed_matches, one entry
\* each, and their rows, their teams' counters and the tournament's status
\* are as before the call; every other match of the round is finished, and
\* matches_simulated and matches_failed count the matches that were
\* simulated and the matches that failed.
C29_LockedMatchFailsAlone ==
    [][ (rr.calls = 0 /\ rr'.calls = 1 /\ rr'.result.round_matches # <<>>) =>
          LET res == rr'.result
              round == res.round_matches
              lock(k) == res.locks[2 - (k % 2)]
              failing == SelectSeq([k \in 1..Len(round) |-> k],
                                   LAMBDA k : lock(k).fails >= max_retries)
              needed == [k \in 1..Len(round) |-> AttemptsNeeded(lock(k).fails)]
          IN  /\ res.attempts = SumSeq(needed)
              /\ res.attempts <= 3 * Len(round)
              /\ res.failed_matches = [j \in 1..Len(failing) |-> matches[round[failing[j]]].id]
              /\ \A k \in 1..Len(round) :
                    IF lock(k).fails >= max_retries
                    THEN /\ matches'[round[k]] = matches[round[k]]
                         /\ teamStats'[matches[round[k]].home_team]
                               = teamStats[matches[round[k]].home_team]
                         /\ teamStats'[matches[round[k]].away_team]
                               = teamStats[matches[round[k]].away_team]
                         /\ Len(round) = 1 => tstatus' = tstatus
                    ELSE matches'[round[k]].status = "finished"
              /\ res.matches_failed = Len(failing)
              /\ res.matches_simulated = Len(round) - Len(failing) ]_vars

\* C30: when a creation of the next knockout round raises, the call of
\* generate_next_knockout_round returns False and no match of the new round
\* is stored.
C30_RoundAllOrNothing ==
    [][ (rr.calls = 0 /\ rr'.calls = 1 /\ last'.op = "simulate_round"
           /\ rr'.result.fail_at <= rr'.result.num_matches) =>
          /\ last'.called
          /\ ~last'.advanced
          /\ Len(matches') = Len(matches)
          /\ generate_next_knockout_round(matches', last'.round).ok ]_vars

----------------------------------------------------------------------------
(* Properties of registration and of the generated fixtures                *)
(****************************************************************************)
\* the teams whose registration is cancelled
Cancelled(regs) == {regs[i].team : i \in {j \in 1..Len(regs) : regs[j].status = "cancelled"}}

\* C31: a request that generates fixtures, the generate-fixtures request or
\* the creation of the registration that fills the tournament, creates no
\* match of a team whose registration is cancelled at that time.
C31_OnlyActiveTeamsInFixtures ==
    [][ \A i \in 1..Len(matches') :
           (\A j \in 1..Len(matches) : matches[j].id # matches'[i].id) =>
              {matches'[i].home_team, matches'[i].away_team}
                 \cap Cancelled(registrations') = {} ]_vars

\* the labels of the rounds of a knockout tournament
KnockoutLabels == {ROUND_1, ROUND_OF_16, QUARTER_FINALS, SEMI_FINALS, FINAL}

\* C40: in a knockout tournament every stored match carries the label of a
\* knockout round, and the first fixtures stored for 2^k teams with a pending
\* or paid registration are exactly the 2^(k-1) matches labelled Round 1.
C40_KnockoutFixturesOnly ==
    [][ format = "knockout" =>
          /\ \A i \in 1..Len(matches') : matches'[i].pitch \in KnockoutLabels
          /\ ( /\ matches = <<>> /\ matches' # <<>>
               /\ is_power_of_2(Len(RegisteredTeams(registrations'))) )
             => /\ 2 * Len(matches') = Len(RegisteredTeams(registrations'))
                /\ \A i \in 1..Len(matches') : matches'[i].pitch = ROUND_1 ]_vars

\* the team that a stored match sends on, as a set of zero or one team
SentOn(m) ==
    IF m.status # "finished" THEN {}
    ELSE IF m.home_score > m.away_score THEN {m.home_team}
    ELSE IF m.away_score > m.home_score THEN {m.away_team}
    ELSE IF m.home_penalties = None \/ m.away_penalties = None THEN {}
    ELSE IF m.home_penalties > m.away_penalties THEN {m.home_team}
    ELSE IF m.away_penalties > m.home_penalties THEN {m.away_team}
    ELSE {}

\* C32: the winners list holds, in the order of the matches, one team for
\* each finished match with a decisive result - the team with the higher
\* score, or on level scores the team with the higher penalty score - and no
\* team for a match that is not finished or whose scores are level with
\* penalties absent or equal; it never holds a team that did not win.
C32_WinnersAreDecisive ==
    rr.calls = 1 =>
        LET decisive == SelectSeq([i \in 1..Len(matches) |-> i],
                                  LAMBDA i : SentOn(matches[i]) # {})
        IN  /\ Len(rr.result) = Len(decisive)
            /\ \A k \in 1..Len(decisive) : SentOn(matches[decisive[k]]) = {rr.result[k]}
            /\ \A i \in 1..Len(matches) :
                  \A t \in {matches[i].home_team, matches[i].away_team} :
                      t \in Range(rr.result) <=> SentOn(matches[i]) = {t}

\* the first Semi-Final is level at 1-1 and goes to team 2 on penalties 3-4,
\* the second is level at 2-2 with penalties 4-4: team 2 alone is a winner
C32_Witness ==
    /\ rr.calls = 1
    /\ matches[1].status = "finished" /\ matches[1].home_score = 1
    /\ matches[1].away_score = 1
    /\ matches[1].home_penalties = 3 /\ matches[1].away_penalties = 4
    /\ matches[2].status = "finished" /\ matches[2].home_score = 2
    /\ matches[2].away_score = 2
    /\ matches[2].home_penalties = 4 /\ matches[2].away_penalties = 4
    /\ rr.result = <<2>>

\* the stored matches under the group's name are between teams of the list
\* and no pair of teams meets twice among them
CoversWithoutDuplicates ==
    \A i \in 1..Len(matches) :
        StartsWith(matches[i].pitch, rr.group_name) =>
           /\ {matches[i].home_team, matches[i].away_team} \subseteq Range(rr.group_teams)
           /\ \A j \in 1..Len(matches) :
                 ( /\ j # i /\ StartsWith(matches[j].pitch, rr.group_name) )
                 => {matches[j].home_team, matches[j].away_team}
                      # {matches[i].home_team, matches[i].away_team}

\* the stored matches under the group's name between the teams a and b
Meeting(ms, a, b) ==
    {i \in 1..Len(ms) :
        /\ StartsWith(ms[i].pitch, rr.group_name)
        /\ {ms[i].home_team, ms[i].away_team} = {a, b}}

\* C33: when the stored matches of a group cover some of its pairs without
\* duplicates, the call of generate_round_robin_for_group creates a match for
\* each missing pair and for no pair that is stored, so that afterwards every
\* unordered pair of the group is stored exactly once.
C33_TopUpMissingPairs ==
    [][ (rr.calls = 0 /\ rr'.calls = 1 /\ CoversWithoutDuplicates) =>
          /\ SubSeq(matches', 1, Len(matches)) = matches
          /\ \A a, b \in Range(rr.group_teams) :
                a # b =>
                   /\ Cardinality(Meeting(matches', a, b)) = 1
                   /\ Cardinality(Meeting(matches, a, b)) = 1
                        => Meeting(matches', a, b) = Meeting(matches, a, b)
          /\ Len(matches') - Len(matches)
                = (Len(rr.group_teams) * (Len(rr.group_teams) - 1)) \div 2
                    - Cardinality({i \in 1..Len(matches) :
                                      StartsWith(matches[i].pitch, rr.group_name)}) ]_vars

\* the group 1, 2, 3, 4 had 2 v 1 and 1 v 4 stored, beside a match of Group B,
\* and the call added the four matches that were missing
C33_Witness ==
    /\ rr.calls = 1
    /\ rr.group_teams = <<1, 2, 3, 4>>
    /\ Len(matches) = 7
    /\ matches[1].home_team = 2 /\ matches[1].away_team = 1
    /\ matches[2].away_team = 4
    /\ StartsWith(matches[3].pitch, GroupName(2))
    /\ \A i \in 4..7 : matches[i].id = i /\ StartsWith(matches[i].pitch, GroupName(1))

----------------------------------------------------------------------------
(* Properties of score entry on knockout matches                           *)

\* the request body is a level score with a penalty missing or both equal
LevelWithoutShootout(inp) ==
    /\ inp.hs = inp.as
    /\ inp.hp = None \/ inp.ap = None \/ inp.hp = inp.ap

\* C34: set_score on a knockout-stage match with a level score and penalties
\* missing or equal answers 400 and changes nothing: the matches, the
\* tournament status and the team counters stay as they were and no next
\* round is looked for.
C34_LevelScoreRejected ==
    [][ \A i \in 1..Len(matches), inp \in ScoreInputs :
          ( /\ is_knockout(format, matches[i])
            /\ LevelWithoutShootout(inp)
            /\ SetScore(i, inp) )
          => /\ last'.status = 400
             /\ matches' = matches
             /\ tstatus' = tstatus
             /\ teamStats' = teamStats
             /\ ~last'.called /\ ~last'.advanced /\ ~last'.knockout_generated ]_vars

\* a level score was refused while one match of the round was already finished
C34_Witness ==
    /\ last.op = "set_score" /\ last.status = 400
    /\ Len(matches) = 2
    /\ matches[1].status = "finished"
    /\ matches[2].status = "scheduled"

\* the stored row names a winner: the scores differ, or both penalties are
\* stored and differ
HasWinner(m) ==
    \/ m.home_score # m.away_score
    \/ /\ m.home_penalties # None /\ m.away_penalties # None
       /\ m.home_penalties # m.away_penalties

\* C35: every knockout-stage match that set_score leaves finished has a
\* determinable winner in its stored, non-negative values: the stored scores
\* differ or the stored penalties are both present and differ.
C35_FinishedHasWinner ==
    [][ \A i \in 1..Len(matches), inp \in ScoreInputs :
          ( /\ is_knockout(format, matches[i])
            /\ SetScore(i, inp)
            /\ last'.status = 200 )
          => /\ matches'[i].status = "finished"
             /\ matches'[i].home_score >= 0 /\ matches'[i].away_score >= 0
             /\ HasWinner(matches'[i]) ]_vars

----------------------------------------------------------------------------
(* Properties of the round created from the winners                        *)

\* the rows the step has added to the stored matches
CreatedRows == SubSeq(matches', Len(matches) + 1, Len(matches'))

\* the winners of the round the step has advanced from, as stored after it
AdvancingWinners == Winners(CompletedRoundMatches(matches', last'.round))

\* C36: whenever a next round is created from the w winners of a completed
\* round, every one of the w winners appears in exactly one match of the
\* new round: none is dropped and none appears twice.
C36_EveryWinnerPlaysOnce ==
    [][ (last'.advanced /\ Len(matches') > Len(matches)) =>
          \A k \in 1..Len(AdvancingWinners) :
             Cardinality({j \in 1..Len(CreatedRows) :
                             AdvancingWinners[k] \in {CreatedRows[j].home_team,
                                                      CreatedRows[j].away_team}}) = 1 ]_vars

\* the round before the one of matches[i]: the rows that share the label of
\* the last row stored before matches[i] under another label
PreviousRound(i) ==
    LET before == {j \in 1..(i - 1) : matches[j].pitch # matches[i].pitch}
    IN  IF before = {} THEN <<>>
        ELSE SelectSeq(matches, LAMBDA m : m.pitch = matches[MaxOf(before)].pitch)

\* C37: in every reachable state both teams of every match of a knockout
\* round after the first are winners, under the results stored now, of
\* finished matches of the round before it; a result entered again for a
\* finished match of that round is a case of it.
C37_NextRoundHoldsWinners ==
    \A i \in 1..Len(matches) :
       ( /\ is_knockout(format, matches[i])
         /\ matches[i].pitch # ROUND_1 )
       => {matches[i].home_team, matches[i].away_team}
             \subseteq Range(Winners(PreviousRound(i)))

----------------------------------------------------------------------------
(* Properties of the reset request                                         *)

\* C38: after reset_matches every knockout-stage match is deleted, every
\* remaining match is scheduled at 0-0 without penalties, the tournament is
\* not completed, the five counters of every team with a pending or paid
\* registration are 0, and the registrations and the teams are as before.
C38_ResetFrame ==
    [][ last'.op = "reset_matches" =>
          /\ \A i \in 1..Len(matches) :
                is_knockout(format, matches[i])
                => \A j \in 1..Len(matches') : matches'[j].id # matches[i].id
          /\ \A j \in 1..Len(matches') :
                /\ ~is_knockout(format, matches'[j])
                /\ matches'[j].status = "scheduled"
                /\ matches'[j].home_score = 0 /\ matches'[j].away_score = 0
                /\ matches'[j].home_penalties = None
                /\ matches'[j].away_penalties = None
          /\ tstatus' # "completed"
          /\ \A k \in 1..Len(registrations) :
                registrations[k].status \in {"pending", "paid"}
                => teamStats'[registrations[k].team] = NoStats
          /\ registrations' = registrations
          /\ DOMAIN teamStats' = DOMAIN teamStats ]_vars

\* a reset after matches were played and the last team was removed: the
\* group matches are back at the start, the registered teams are at 0 and
\* the removed team keeps what it had
C38_Witness ==
    /\ last.op = "reset_matches"
    /\ Len(matches) > 0
    /\ \A j \in 1..Len(matches) : matches[j].status = "scheduled"
    /\ \A k \in 1..Len(registrations) : Played(registrations[k].team) = 0
    /\ \E t \in DOMAIN teamStats : Played(t) > 0

----------------------------------------------------------------------------
(* Progress of a knockout tournament                                       *)

\* a match labelled Final is stored and finished, and the tournament is completed
FinalPlayed ==
    /\ tstatus = "completed"
    /\ \E i \in 1..Len(matches) :
          matches[i].pitch = FINAL /\ matches[i].status = "finished"

\* C39: in a knockout tournament started with 2^k teams in which every
\* scheduled match is eventually given a decisive result through set_score,
\* eventually a match labelled Final is finished and the tournament is
\* completed.
C39_FinalIsPlayed ==
    <>FinalPlayed

============================================================================
